---- MODULE Spec2Model ----
(***************************************************************************)
(* Verification model of jax-js: the scalar expression IR (AluExp) with    *)
(* its simplifier and evaluator, the WGSL code generator, the backends'    *)
(* reference-counted buffer tables, the interpreter stack of the tracing   *)
(* core, the lazy Array with its pending kernels, and View.create.         *)
(*                                                                         *)
(* Each subsystem has its own specification (SpecAlu, SpecDiv, ...) over   *)
(* the shared variables; a specification leaves the variables of the other *)
(* subsystems at their initial value.                                      *)
(***************************************************************************)
EXTENDS Integers, Sequences, FiniteSets, TLC

VARIABLES
  \* --- AluExp: simplify / evaluate (src/src/alu.ts) ---
  aluExp,      \* the expression built with the static constructors
  aluSimp,     \* aluExp.simplify(), or NoExp before the call
  aluSimp2,    \* aluExp.simplify().simplify(), or NoExp before the call
  aluPc,       \* "build" | "simplified" | "resimplified"
  \* --- idiv / mod on the evaluator and on the WGSL path ---
  divA,        \* first operand expression of the idiv / mod node
  divB,        \* second operand expression
  divGidx,     \* value of gidx (the invocation id) the node is run at
  evIdiv,      \* idiv(divA, divB).evaluate({gidx}), or NoValue
  evMod,       \* mod(divA, divB).evaluate({gidx}), or NoValue
  wgslSource,  \* expression pipelineSource emits for idiv(divA, divB)
  gpuIdiv,     \* value of wgslSource on the GPU, or NoValue
  \* --- Backend: the buffer table (cpu, wasm, webgpu) ---
  bkType,      \* which Backend implementation this is
  buffers,     \* Map<Slot, {ref, size, ptr}>: the live slots
  nextSlot,    \* the next slot id malloc hands out
  headPtr,     \* WasmBackend.#headPtr: first free byte (0 on the others)
  incCount,    \* per slot, the incRef calls that returned normally
  decCount,    \* per slot, the decRef calls that returned normally
  lastCall,    \* the last backend call: [op, slots, err]
  \* --- Interpreter stack (src/src/core.ts) ---
  traceStack,  \* MainTrace[]: entry 0 is pushed when the module loads
  callStack,   \* the jvpFlat / vmapFlat calls in progress, innermost last
  thrown,      \* the error in flight, or "none"
  lastExit,    \* how the last jvpFlat / vmapFlat call ended
  \* --- Lazy arrays (src/src/array.ts) ---
  arrays,      \* the Array objects created so far: [source, size, pending]
  kernels,     \* the PendingExecute objects created so far
  calls,       \* the data() / dataSync() calls made so far
  \* --- Views (src/src/shape.ts) ---
  viewArgs,    \* the arguments of View.create: [shape, strides, offset, mask]
  view,        \* the View it returned, or NoView
  viewPc,      \* "args", "created", "queried" or "thrown"
  viewContiguous,  \* view.contiguous, once it has been read
  \* --- jvp (src/unnamed/part_004, src/src/core.ts) ---
  jvpF,        \* the body of the traced function f, as an expression
  jvpPrimals,  \* the primals jvp is called with
  jvpTangents, \* the tangents jvp is called with
  jvpOut,      \* [primal, tangent] that jvpFlat returned, or NoJvp
  jvpPc,       \* "idle", "build" or "done"
  \* --- vmap (src/src/core.ts) ---
  vmIn,        \* the call made: [fn, prim, args, dims, axis, axisSize, dtypes]
  vmOut,       \* what it returned or threw: [err, shape, bdim, axis]
  vmPc,        \* "idle" or "done"
  \* --- ShaderPipelineCache (src/src/backend/webgpu.ts) ---
  spCache,        \* cache: shader source -> pipeline, 0 when absent
  spInProgress,   \* inProgress: shader source -> promise, or NoPromise
  spCalls,        \* the get / getSync calls made: [fn, code, pc, result]
  spAsyncStarted, \* createComputePipelineAsync calls made, per source
  spSyncCompiled, \* createComputePipeline calls made, per source
  spNext,         \* the next pipeline object the device creates
  \* --- reference counts in the JVP rules (src/unnamed/part_004) ---
  rcPrim,      \* the primitive whose JVP rule runs
  rcInit,      \* references of each input when the rule is entered
  rcCount,     \* references of each input and intermediate value now
  rcNext,      \* index of the rule's next operation
  rcPc,        \* "idle", "running", "returned" or "thrown"
  \* --- bind (src/src/core.ts) ---
  bdArgs,     \* the operands of the last bind call, <<>> before it
  bdTop,      \* the main of the trace findTopTrace returned
  bdTracers,  \* what processPrimitive was called with
  bdErr,      \* the error fullRaise threw, or "none"
  \* --- PendingExecute with submit / submitSync (src/test/refcount.test.ts) ---
  peSubmitted,  \* PendingExecute.submitted
  pePromise,    \* #promise: "null", "pending", "fulfilled" or "rejected"
  peCalls,      \* the submit / submitSync calls made: [fn, pc, did]
  peDispatched, \* the backend.dispatch calls made for the kernel
  pePrepared,   \* the backend.prepare calls made for the kernel
  \* --- typecheckJaxpr (src/src/core.ts) ---
  tcJaxpr,      \* the jaxpr: [avals, inBinders, eqns, outs]
  tcResult,     \* what typecheckJaxpr did: "none" before the call, "ok", or the error
  \* --- WasmBackend memory (src/src/backend/wasm.ts) ---
  wmBuffers,    \* #buffers: slot -> [ptr, size], in the order of the mallocs
  wmHead,       \* #headPtr, in 64-byte blocks
  wmLast,       \* the last call: [op, err, fits]
  \* --- addDecayedWeights (src/packages/optax/src/transform.ts) ---
  odCfg,        \* the options: [weightDecay, mask, leaves]
  odMask,       \* reference count of every array of the static mask tree
  odBefore,     \* odMask before the last update call
  odK,          \* the update calls made
  odErr         \* the error the last update call threw, or "none"

aluVars == <<aluExp, aluSimp, aluSimp2, aluPc>>
divVars == <<divA, divB, divGidx, evIdiv, evMod, wgslSource, gpuIdiv>>
bkVars == <<bkType, buffers, nextSlot, headPtr, incCount, decCount, lastCall>>

trVars == <<traceStack, callStack, thrown, lastExit>>

arVars == <<arrays, kernels, calls>>

viewVars == <<viewArgs, view, viewPc, viewContiguous>>

jvpVars == <<jvpF, jvpPrimals, jvpTangents, jvpOut, jvpPc>>

vmVars == <<vmIn, vmOut, vmPc>>

spVars == <<spCache, spInProgress, spCalls, spAsyncStarted, spSyncCompiled, spNext>>

rcVars == <<rcPrim, rcInit, rcCount, rcNext, rcPc>>

bdVars == <<bdArgs, bdTop, bdTracers, bdErr>>

peVars == <<peSubmitted, pePromise, peCalls, peDispatched, pePrepared>>

tcVars == <<tcJaxpr, tcResult>>

wmVars == <<wmBuffers, wmHead, wmLast>>

odVars == <<odCfg, odMask, odBefore, odK, odErr>>

vars ==
  <<aluVars, divVars, bkVars, trVars, arVars, viewVars, jvpVars, vmVars,
    spVars,
    rcVars,
    bdVars,
    peVars,
    tcVars,
    wmVars,
    odVars>>

(***************************************************************************)
(* Bounds of the model.                                                    *)
(***************************************************************************)
MaxDepth == 2        \* nesting depth of the expressions that are built
MaxConst == 2        \* integer literals range over -1 .. MaxConst
MaxGidx == 2         \* contexts assign -1 .. MaxGidx to the special gidx
MaxOperand == 3      \* idiv / mod operand literals range over -MaxOperand .. MaxOperand
MaxSlot == 2         \* malloc is called at most MaxSlot times on a backend
MaxRef == 2          \* incRef is called on a live slot at most MaxRef times
MaxNest == 4         \* jvp / vmap calls are nested at most MaxNest deep
MaxArrays == 3       \* at most MaxArrays Array objects are created
MaxCalls == 2        \* at most MaxCalls data() / dataSync() calls are made
MaxRank == 2         \* shapes have at most MaxRank dimensions
MaxDim == 2          \* a dimension has size -1 .. MaxDim
MaxStride == 2       \* explicit strides range over 0 .. MaxStride
MaxJvpDepth == 2     \* nesting depth of the traced function's body
MaxPrimal == 1       \* elements of primals range over 0 .. MaxPrimal
VecLen == 2          \* length of the vector parameter of the traced function
MaxVmapRank == 2     \* per-example shapes have at most MaxVmapRank dimensions
MaxVmapDim == 3      \* a dimension of a per-example shape is 1 .. MaxVmapDim
MaxAxisSize == 3     \* the mapped axis has 2 .. MaxAxisSize elements
MaxShaderCalls == 4  \* at most MaxShaderCalls get / getSync calls are made
MaxHeld == 2         \* an input of a rule has 1 .. MaxHeld references
MaxLevel == 2        \* tracers belong to interpreters of level 0 .. MaxLevel
MaxSerial == 1       \* MaxSerial + 1 interpreters were pushed at a level >= 1
MaxBindArgs == 3     \* bind is called with 1 .. MaxBindArgs operands
MaxSubmits == 4      \* at most MaxSubmits submit / submitSync calls are made
MaxVar == 3          \* a jaxpr is built from the variables 1 .. MaxVar
MaxInBinders == 2    \* a jaxpr has 1 .. MaxInBinders input binders
MaxEqns == 1         \* a jaxpr has 1 .. MaxEqns equations
MaxTcRank == 1       \* variable types have at most MaxTcRank dimensions
MaxWasmSlots == 3    \* malloc is called at most MaxWasmSlots times
MaxLeaves == 2       \* the params / updates / mask trees have 1 .. MaxLeaves leaves
MaxMaskRefs == 2     \* a mask array starts with 1 .. MaxMaskRefs references
MaxUpdates == 3      \* update is called at most MaxUpdates times
TcDim == 2           \* the size of a dimension of a variable type

(***************************************************************************)
(* JavaScript numbers, as far as the evaluator can produce them from       *)
(* integer and boolean literals: finite integers, +/-Infinity, NaN, and    *)
(* booleans.  A value is a pair <<kind, n>>.                               *)
(***************************************************************************)
Num(n) == <<"num", n>>
Bool(b) == <<"bool", IF b THEN 1 ELSE 0>>
NaN == <<"nan", 0>>
Infinity(sign) == <<"inf", sign>>
Undefined == <<"undefined", 0>>

IsNum(v) == v[1] = "num"
IsInf(v) == v[1] = "inf"
IsNaN(v) == v[1] = "nan"
IsBool(v) == v[1] = "bool"

Abs(n) == IF n < 0 THEN -n ELSE n
Sgn(n) == IF n < 0 THEN -1 ELSE IF n = 0 THEN 0 ELSE 1

\* Truthiness of a value (the condition of `?:`, `||`, `&&`).
Truthy(v) ==
  CASE IsBool(v) -> v[2] = 1
    [] IsNum(v) -> v[2] # 0
    [] IsInf(v) -> TRUE
    [] OTHER -> FALSE

\* x + y
jsAdd(x, y) ==
  IF IsNaN(x) \/ IsNaN(y) THEN NaN
  ELSE IF IsInf(x) /\ IsInf(y) THEN (IF x[2] = y[2] THEN x ELSE NaN)
  ELSE IF IsInf(x) THEN x
  ELSE IF IsInf(y) THEN y
  ELSE Num(x[2] + y[2])

\* x - y
jsSub(x, y) ==
  IF IsNaN(x) \/ IsNaN(y) THEN NaN
  ELSE IF IsInf(x) /\ IsInf(y) THEN (IF x[2] # y[2] THEN x ELSE NaN)
  ELSE IF IsInf(x) THEN x
  ELSE IF IsInf(y) THEN Infinity(-y[2])
  ELSE Num(x[2] - y[2])

\* x * y
jsMul(x, y) ==
  IF IsNaN(x) \/ IsNaN(y) THEN NaN
  ELSE IF IsInf(x) \/ IsInf(y)
    THEN (IF Sgn(x[2]) * Sgn(y[2]) = 0 THEN NaN
          ELSE Infinity(Sgn(x[2]) * Sgn(y[2])))
  ELSE Num(x[2] * y[2])

\* Math.floor of the real quotient of two finite integers, y # 0.
FloorQuot(x, y) ==
  LET q == Abs(x) \div Abs(y)
      exact == (Abs(x) % Abs(y)) = 0
  IN IF Sgn(x) * Sgn(y) >= 0 THEN q
     ELSE IF exact THEN -q ELSE -(q + 1)

\* The remainder x % y of JavaScript for finite integers, y # 0: it has the
\* sign of the dividend.
TruncRem(x, y) == Sgn(x) * (Abs(x) % Abs(y))

\* Math.floor(x / y)
jsFloorDiv(x, y) ==
  IF IsNaN(x) \/ IsNaN(y) THEN NaN
  ELSE IF IsInf(x) /\ IsInf(y) THEN NaN
  ELSE IF IsInf(x) THEN Infinity(IF y[2] < 0 THEN -x[2] ELSE x[2])
  ELSE IF IsInf(y) THEN Num(0)
  ELSE IF y[2] = 0 THEN (IF x[2] = 0 THEN NaN ELSE Infinity(Sgn(x[2])))
  ELSE Num(FloorQuot(x[2], y[2]))

\* x % y
jsRem(x, y) ==
  IF IsNaN(x) \/ IsNaN(y) THEN NaN
  ELSE IF IsInf(x) THEN NaN
  ELSE IF IsInf(y) THEN x
  ELSE IF y[2] = 0 THEN NaN
  ELSE Num(TruncRem(x[2], y[2]))

\* x < y
jsLt(x, y) ==
  IF IsNaN(x) \/ IsNaN(y) THEN FALSE
  ELSE IF IsInf(x) /\ IsInf(y) THEN x[2] < y[2]
  ELSE IF IsInf(x) THEN x[2] < 0
  ELSE IF IsInf(y) THEN y[2] > 0
  ELSE x[2] < y[2]

\* x != y
jsNe(x, y) ==
  IF IsNaN(x) \/ IsNaN(y) THEN TRUE
  ELSE IF IsInf(x) \/ IsInf(y) THEN x # y
  ELSE x[2] # y[2]

(***************************************************************************)
(* AluExp: a node {op, dtype, src, arg}.                                   *)
(***************************************************************************)
Int32 == "int32"
BoolT == "bool"

AluExp(op, dtype, src, arg) == [op |-> op, dtype |-> dtype, src |-> src, arg |-> arg]

AluGroupBinary == {"Add", "Sub", "Mul", "Idiv", "Mod"}
AluGroupCompare == {"Cmplt", "Cmpne"}
AluGroupVariable == {"Special", "GlobalIndex"}

add(a, b) == AluExp("Add", a.dtype, <<a, b>>, Undefined)
sub(a, b) == AluExp("Sub", a.dtype, <<a, b>>, Undefined)
mul(a, b) == AluExp("Mul", a.dtype, <<a, b>>, Undefined)
idiv(a, b) == AluExp("Idiv", a.dtype, <<a, b>>, Undefined)
mod(a, b) == AluExp("Mod", a.dtype, <<a, b>>, Undefined)
cmplt(a, b) == AluExp("Cmplt", BoolT, <<a, b>>, Undefined)
cmpne(a, b) == AluExp("Cmpne", BoolT, <<a, b>>, Undefined)
where(cond, a, b) == AluExp("Where", a.dtype, <<cond, a, b>>, Undefined)
const(dtype, value) == AluExp("Const", dtype, <<>>, value)
special(dtype, name, n) == AluExp("Special", dtype, <<>>, <<name, n>>)
i32(value) == const(Int32, Num(value))
bool(value) == const(BoolT, Bool(value))

\* The context {gidx: g} handed to evaluate; {} is EmptyContext.
Context(g) == [gidx |-> Num(g)]
EmptyContext == [gidx |-> Undefined]

RECURSIVE evaluate(_, _)
evaluate(e, context) ==
  IF e.op \in AluGroupBinary \cup AluGroupCompare THEN
    LET x == evaluate(e.src[1], context)
        y == evaluate(e.src[2], context)
    IN CASE e.op = "Add" ->
              IF e.dtype = BoolT THEN (IF Truthy(x) THEN x ELSE y) ELSE jsAdd(x, y)
         [] e.op = "Sub" -> jsSub(x, y)
         [] e.op = "Mul" ->
              IF e.dtype = BoolT THEN (IF Truthy(x) THEN y ELSE x) ELSE jsMul(x, y)
         [] e.op = "Idiv" -> jsFloorDiv(x, y)
         [] e.op = "Mod" -> jsRem(x, y)
         [] e.op = "Cmplt" -> Bool(jsLt(x, y))
         [] e.op = "Cmpne" -> Bool(jsNe(x, y))
  ELSE CASE e.op = "Where" ->
              IF Truthy(evaluate(e.src[1], context))
                THEN evaluate(e.src[2], context)
                ELSE evaluate(e.src[3], context)
         [] e.op = "Const" -> e.arg
         [] e.op = "Special" -> context[e.arg[1]]

\* FoldApplies without the `i === 1` test of the Sub rule: 0 - y is folded
\* to y as y - 0 is.
FoldApplies_SubEitherSide(op, src, i) ==
  /\ src[i + 1].op = "Const"
  /\ LET x == src[i + 1].arg
     IN \/ op = "Add" /\ x = Num(0)
        \/ op = "Sub" /\ x = Num(0)
        \/ op = "Mul" /\ x = Num(1)
        \/ op = "Mul" /\ x = Num(0)
        \/ op = "Idiv" /\ i = 1 /\ x = Num(1)

\* The constant x at operand i (0 or 1) that makes a binary node a no-op.
FoldApplies(op, src, i) ==
  /\ src[i + 1].op = "Const"
  /\ LET x == src[i + 1].arg
     IN \/ op = "Add" /\ x = Num(0)
        \/ op = "Sub" /\ i = 1 /\ x = Num(0)
        \/ op = "Mul" /\ x = Num(1)
        \/ op = "Mul" /\ x = Num(0)
        \/ op = "Idiv" /\ i = 1 /\ x = Num(1)

FoldResult(op, dtype, src, i) ==
  LET x == src[i + 1].arg
      other == src[(1 - i) + 1]
  IN IF op = "Add" /\ x = Num(0) THEN other
     ELSE IF op = "Sub" /\ i = 1 /\ x = Num(0) THEN other
     ELSE IF op = "Mul" /\ x = Num(1) THEN other
     ELSE IF op = "Mul" /\ x = Num(0) THEN const(dtype, Num(0))
     ELSE other

IsConstMinusOne(e) == e.op = "Const" /\ e.arg = Num(-1)

RECURSIVE simplify(_)
simplifyInner(e) ==
  LET src == [i \in 1..Len(e.src) |-> simplify(e.src[i])]
      op == e.op
      opNeg == IF op = "Add" THEN "Sub" ELSE "Add"
      newExp == AluExp(op, e.dtype, src, e.arg)
  IN IF op \in AluGroupBinary /\ FoldApplies(op, src, 0)
       THEN FoldResult(op, e.dtype, src, 0)
     ELSE IF op \in AluGroupBinary /\ FoldApplies(op, src, 1)
       THEN FoldResult(op, e.dtype, src, 1)
     ELSE IF op \in {"Add", "Sub"} /\ src[2].op = "Mul"
               /\ IsConstMinusOne(src[2].src[1])
       THEN AluExp(opNeg, e.dtype, <<src[1], src[2].src[2]>>, Undefined)
     ELSE IF op \in {"Add", "Sub"} /\ src[2].op = "Mul"
               /\ IsConstMinusOne(src[2].src[2])
       THEN AluExp(opNeg, e.dtype, <<src[1], src[2].src[1]>>, Undefined)
     ELSE IF op = "Where" /\ src[1].op = "Const"
       THEN src[IF Truthy(src[1].arg) THEN 2 ELSE 3]
     ELSE IF (\A i \in 1..Len(src) : src[i].op = "Const")
               /\ op \notin AluGroupVariable
       THEN const(e.dtype, evaluate(newExp, EmptyContext))
     ELSE newExp

\* simplify() caches simplifyInner() on the node; the cached value is the
\* value simplifyInner() returns.
simplify(e) == simplifyInner(e)

(***************************************************************************)
(* SpecAlu: expressions are built with the static constructors, then       *)
(* simplify() is called on the result and again on what it returned.       *)
(***************************************************************************)
NoExp == const("none", Undefined)
NoValue == <<"none", 0>>

\* A backend right after its constructor ran.
NoCall == [op |-> "none", slots |-> {}, err |-> "none"]
NoBuffers == [s \in {} |-> [ref |-> 0, size |-> 0, ptr |-> 0]]

InitBackendOf(type) ==
  /\ bkType = type
  /\ buffers = NoBuffers
  /\ nextSlot = 1
  /\ headPtr = 0
  /\ incCount = [s \in {} |-> 0]
  /\ decCount = [s \in {} |-> 0]
  /\ lastCall = NoCall

InitBackendIdle == InitBackendOf("cpu")

\* A MainTrace; globalData is left out.
MainTrace(level, traceType) == [level |-> level, traceType |-> traceType]

NoExit == [fn |-> "none", outcome |-> "none", level |-> 0]

\* traceStack.push({ level: 0, traceType: EvalTrace, globalData: null })
InitTraceIdle ==
  /\ traceStack = <<MainTrace(0, "EvalTrace")>>
  /\ callStack = <<>>
  /\ thrown = "none"
  /\ lastExit = NoExit

\* An optional argument that is left out, or null.
Absent == {}

\* An optional argument that is given.
Some(x) == {x}

\* new View(shape, strides, offset, mask)
View(shape, strides, offset, mask) ==
  [shape |-> shape, strides |-> strides, offset |-> offset, mask |-> mask]

NoView == View(<<>>, <<>>, 0, Absent)

\* View.create has not been called.
InitViewIdle ==
  /\ viewArgs = NoView
  /\ view = NoView
  /\ viewPc = "idle"
  /\ viewContiguous = FALSE

\* A JVPTracer of the jvp in progress (level 1), or the pair jvpFlat
\* returns.
JVPTracer(primal, tangent) ==
  [level |-> 1, primal |-> primal, tangent |-> tangent]

\* An Array of the evaluator (level 0); it carries no tangent.
ConcreteArray(val) == [level |-> 0, primal |-> val, tangent |-> <<>>]

NoJvp == JVPTracer(<<>>, <<>>)

\* jvp has not been called.
InitJvpIdle ==
  /\ jvpF = [prim |-> "none", args |-> <<>>, arg |-> 0]
  /\ jvpPrimals = <<>>
  /\ jvpTangents = <<>>
  /\ jvpOut = NoJvp
  /\ jvpPc = "idle"

\* The value of batchDim for a value that is not batched (null).
NotMapped == -1

\* What a rule returned: the shape of the value, its batch axis and, for
\* reduceSum, the axes that were reduced.
Returns(shape, bdim, axis) ==
  [err |-> "none", shape |-> shape, bdim |-> bdim, axis |-> axis]

\* throw new <kind>(...)
Throws(kind) ==
  [err |-> kind, shape |-> <<>>, bdim |-> NotMapped, axis |-> <<>>]

\* Nothing has been traced by vmap.
InitVmapIdle ==
  /\ vmIn = [fn |-> "none", prim |-> "none", args |-> <<>>, dims |-> <<>>,
             axis |-> <<>>, axisSize |-> 0, dtypes |-> <<>>]
  /\ vmOut = Throws("none")
  /\ vmPc = "idle"

\* The shader sources that are compiled.
ShaderCodes == {"a", "b"}

\* inProgress.get(code) === undefined
NoPromise == [state |-> "none", pipeline |-> 0]

\* new ShaderPipelineCache(device)
InitShaderIdle ==
  /\ spCache = [c \in ShaderCodes |-> 0]
  /\ spInProgress = [c \in ShaderCodes |-> NoPromise]
  /\ spCalls = <<>>
  /\ spAsyncStarted = [c \in ShaderCodes |-> 0]
  /\ spSyncCompiled = [c \in ShaderCodes |-> 0]
  /\ spNext = 1

\* No JVP rule is running.
InitRefcountIdle ==
  /\ rcPrim = "none"
  /\ rcInit = [h \in {} |-> 0]
  /\ rcCount = [h \in {} |-> 0]
  /\ rcNext = 0
  /\ rcPc = "idle"

\* `null`, and the `main` of a value that is not a Tracer.
NoMain == [level |-> -1, serial |-> -1]

\* bind has not been called.
InitBindIdle ==
  /\ bdArgs = <<>>
  /\ bdTop = NoMain
  /\ bdTracers = <<>>
  /\ bdErr = "none"

\* new PendingExecute(exp, inputs, outputs)
InitSubmitIdle ==
  /\ peSubmitted = FALSE
  /\ pePromise = "null"
  /\ peCalls = <<>>
  /\ peDispatched = 0
  /\ pePrepared = 0

\* A jaxpr without binders, equations and outputs; nothing is checked.
InitTypecheckIdle ==
  /\ tcJaxpr = [avals |-> <<>>, inBinders |-> <<>>, eqns |-> <<>>,
                outs |-> <<>>]
  /\ tcResult = "none"

\* new WasmBackend(): no slot, #headPtr = 0.
InitWasmIdle ==
  /\ wmBuffers = <<>>
  /\ wmHead = 0
  /\ wmLast = [op |-> "none", err |-> "none", fits |-> TRUE]

\* addDecayedWeights() with its defaults: weightDecay = 0.0, mask = null.
InitOptaxIdle ==
  /\ odCfg = [weightDecay |-> "zero", mask |-> "null", leaves |-> 0]
  /\ odMask = <<>>
  /\ odBefore = <<>>
  /\ odK = 0
  /\ odErr = "none"

\* No Array exists and no data() call has been made.
InitArrayIdle ==
  /\ arrays = <<>>
  /\ kernels = <<>>
  /\ calls = <<>>

InitDivIdle ==
  /\ divA = NoExp
  /\ divB = NoExp
  /\ divGidx = 0
  /\ evIdiv = NoValue
  /\ evMod = NoValue
  /\ wgslSource = NoExp
  /\ gpuIdiv = NoValue

gidx == special(Int32, "gidx", MaxGidx + 1)
IntLeaves == {i32(c) : c \in -1..MaxConst} \cup {gidx}
BoolLeaves == {bool(TRUE), bool(FALSE)}
Leaves == IntLeaves \cup BoolLeaves
CtxVals == -1..MaxGidx

RECURSIVE Depth(_)
Depth(e) ==
  IF Len(e.src) = 0 THEN 0
  ELSE 1 + (CHOOSE d \in {Depth(e.src[i]) : i \in 1..Len(e.src)} :
               \A i \in 1..Len(e.src) : Depth(e.src[i]) <= d)

\* Operands of the next constructor call: the expression built so far, or
\* a literal / special.
Operands == {aluExp} \cup Leaves
IntOperands == {e \in Operands : e.dtype = Int32}
BoolOperands == {e \in Operands : e.dtype = BoolT}

InitAluIdle ==
  /\ aluExp = NoExp
  /\ aluSimp = NoExp
  /\ aluSimp2 = NoExp
  /\ aluPc = "idle"

NotAlu ==
  <<divVars, bkVars, trVars, arVars, viewVars, jvpVars, vmVars,
    spVars,
    rcVars,
    bdVars,
    peVars,
    tcVars,
    wmVars,
    odVars>>

InitAlu ==
  /\ aluExp \in Leaves
  /\ aluSimp = NoExp
  /\ aluSimp2 = NoExp
  /\ aluPc = "build"

\* A constructor call is made while the expression can still grow.
CanBuild == aluPc = "build" /\ Depth(aluExp) < MaxDepth

Build(e) ==
  /\ aluExp' = e
  /\ UNCHANGED <<aluSimp, aluSimp2, aluPc>>
  /\ UNCHANGED NotAlu

AluAdd ==
  /\ CanBuild
  /\ \/ \E a, b \in IntOperands : Build(add(a, b))
     \/ \E a, b \in BoolOperands : Build(add(a, b))
AluSub == CanBuild /\ \E a, b \in IntOperands : Build(sub(a, b))
AluMul ==
  /\ CanBuild
  /\ \/ \E a, b \in IntOperands : Build(mul(a, b))
     \/ \E a, b \in BoolOperands : Build(mul(a, b))
AluIdiv == CanBuild /\ \E a, b \in IntOperands : Build(idiv(a, b))
AluMod == CanBuild /\ \E a, b \in IntOperands : Build(mod(a, b))
AluCmplt == CanBuild /\ \E a, b \in IntOperands : Build(cmplt(a, b))
AluCmpne ==
  /\ CanBuild
  /\ \/ \E a, b \in IntOperands : Build(cmpne(a, b))
     \/ \E a, b \in BoolOperands : Build(cmpne(a, b))
AluWhere ==
  /\ CanBuild
  /\ \E cond \in BoolOperands :
       \/ \E a, b \in IntOperands : Build(where(cond, a, b))
       \/ \E a, b \in BoolOperands : Build(where(cond, a, b))

\* e.simplify()
AluSimplify ==
  /\ aluPc = "build"
  /\ aluSimp' = simplify(aluExp)
  /\ aluPc' = "simplified"
  /\ UNCHANGED <<aluExp, aluSimp2>>
  /\ UNCHANGED NotAlu

\* e.simplify().simplify()
AluSimplifyAgain ==
  /\ aluPc = "simplified"
  /\ aluSimp2' = simplify(aluSimp)
  /\ aluPc' = "resimplified"
  /\ UNCHANGED <<aluExp, aluSimp>>
  /\ UNCHANGED NotAlu

NextAlu ==
  \/ AluAdd \/ AluSub \/ AluMul \/ AluIdiv \/ AluMod
  \/ AluCmplt \/ AluCmpne \/ AluWhere
  \/ AluSimplify \/ AluSimplifyAgain

InitSpecAlu ==
  InitAlu /\ InitDivIdle /\ InitBackendIdle /\ InitTraceIdle /\ InitArrayIdle
    /\ InitViewIdle /\ InitJvpIdle /\ InitVmapIdle
    /\ InitShaderIdle
    /\ InitRefcountIdle
    /\ InitBindIdle
    /\ InitSubmitIdle
    /\ InitTypecheckIdle
    /\ InitWasmIdle
    /\ InitOptaxIdle

SpecAlu == InitSpecAlu /\ [][NextAlu]_vars

\* C1 (as stated): simplify is idempotent: simplify(simplify(e)) is
\* structurally equal to simplify(e) for every expression e.
C1_SimplifyIdempotent ==
  aluPc = "resimplified" => aluSimp2 = aluSimp

\* No idiv or mod node of e is evaluated over a zero divisor under the
\* context: every subexpression then evaluates to a finite integer or a
\* boolean.
RECURSIVE DivisorsNonZero(_, _)
DivisorsNonZero(e, context) ==
  /\ \A i \in 1..Len(e.src) : DivisorsNonZero(e.src[i], context)
  /\ e.op \in {"Idiv", "Mod"} =>
        LET y == evaluate(e.src[2], context) IN IsNum(y) /\ y[2] # 0

\* C2 (as stated): evaluate(simplify(e), ctx) = evaluate(e, ctx) for every
\* integer- or boolean-typed expression e and every context ctx.
C2_SimplifyPreservesMeaning ==
  aluPc # "build" =>
    \A g \in CtxVals :
      evaluate(aluSimp, Context(g)) = evaluate(aluExp, Context(g))

\* C2 (amended): evaluate(simplify(e), ctx) = evaluate(e, ctx) for every
\* integer- or boolean-typed expression e and every context ctx under which
\* no idiv or mod node of e has a divisor that evaluates to zero.
C2_SimplifyPreservesMeaningDefined ==
  aluPc # "build" =>
    \A g \in CtxVals :
      DivisorsNonZero(aluExp, Context(g)) =>
        evaluate(aluSimp, Context(g)) = evaluate(aluExp, Context(g))

\* Witness of C2: simplify() has rewritten an expression over gidx into a
\* different one, and no divisor is zero for some context.
C2_Witness ==
  /\ aluPc = "simplified"
  /\ aluSimp # aluExp
  /\ aluSimp.op \notin {"Const"}
  /\ aluExp.op \in {"Idiv", "Mod"}
  /\ \E g \in CtxVals : DivisorsNonZero(aluExp, Context(g))

(***************************************************************************)
(* WGSL code generation (src/src/backend/webgpu.ts).  The text that gen()  *)
(* emits for a node is kept as a tree [op, dtype, src, arg] whose op is    *)
(* the WGSL operator or function that was written.                         *)
(***************************************************************************)
Wgsl(op, dtype, src, arg) == [op |-> op, dtype |-> dtype, src |-> src, arg |-> arg]

dtypeToWgsl(dtype) == IF dtype = BoolT THEN "bool" ELSE IF dtype = Int32 THEN "i32" ELSE "f32"

\* A literal: "true" / "false" for a boolean, value.toString() otherwise.
constToWgsl(dtype, value) == Wgsl("literal", dtypeToWgsl(dtype), <<>>, value)

RECURSIVE gen(_)
gen(e) ==
  LET typeName == dtypeToWgsl(e.dtype)
      BinOp(sym) == Wgsl(sym, typeName, <<gen(e.src[1]), gen(e.src[2])>>, Undefined)
  IN CASE e.op = "Add" -> BinOp("+")
       [] e.op = "Sub" -> BinOp("-")
       [] e.op = "Mul" -> BinOp("*")
       [] e.op = "Idiv" ->
            IF e.dtype = Int32 THEN BinOp("/")
            ELSE Wgsl("floor", typeName, <<BinOp("/")>>, Undefined)
       [] e.op = "Mod" -> BinOp("%")
       [] e.op = "Cmplt" -> BinOp("<")
       [] e.op = "Cmpne" -> BinOp("!=")
       [] e.op = "Where" ->
            Wgsl("select", typeName,
                 <<gen(e.src[3]), gen(e.src[2]), gen(e.src[1])>>, Undefined)
       [] e.op = "Const" -> constToWgsl(e.dtype, e.arg)
       [] e.op = "Special" -> Wgsl("identifier", typeName, <<>>, e.arg)

\* The right-hand side of `result[gidx] = ...` in the emitted shader.
pipelineSource(exp) == gen(simplify(exp))

\* The least i32.
MinI32 == -2147483647 - 1

\* WGSL `/` on i32: the quotient truncated toward zero; e1 when e2 is zero
\* or the quotient overflows.
wgslDiv(x, y) ==
  IF y = 0 \/ (x = MinI32 /\ y = -1) THEN x
  ELSE Sgn(x) * Sgn(y) * (Abs(x) \div Abs(y))

\* WGSL `%` on i32: the remainder of the truncated division.
wgslRem(x, y) ==
  IF y = 0 \/ (x = MinI32 /\ y = -1) THEN 0
  ELSE TruncRem(x, y)

\* Value of an emitted expression in invocation id.x = g.  The operands of
\* the model stay far inside the i32 range, where + - * do not wrap.
RECURSIVE wgslEval(_, _)
wgslEval(t, g) ==
  LET x == wgslEval(t.src[1], g)
      y == wgslEval(t.src[2], g)
  IN CASE t.op = "+" -> Num(x[2] + y[2])
       [] t.op = "-" -> Num(x[2] - y[2])
       [] t.op = "*" -> Num(x[2] * y[2])
       [] t.op = "/" -> Num(wgslDiv(x[2], y[2]))
       [] t.op = "%" -> Num(wgslRem(x[2], y[2]))
       [] t.op = "<" -> Bool(x[2] < y[2])
       [] t.op = "!=" -> Bool(x[2] # y[2])
       [] t.op = "floor" -> x
       [] t.op = "select" ->
            IF Truthy(wgslEval(t.src[3], g)) THEN y ELSE x
       [] t.op = "literal" -> t.arg
       [] t.op = "identifier" -> Num(g)

(***************************************************************************)
(* SpecDiv: an idiv and a mod node over two int32 operands are evaluated   *)
(* on the CPU (AluExp.evaluate), and the idiv node is compiled to WGSL and *)
(* run for one invocation.                                                 *)
(***************************************************************************)
OperandExps ==
  {i32(c) : c \in -MaxOperand..MaxOperand}
    \cup {add(gidx, i32(c)) : c \in -MaxOperand..MaxOperand}

NotDiv ==
  <<aluVars, bkVars, trVars, arVars, viewVars, jvpVars, vmVars,
    spVars,
    rcVars,
    bdVars,
    peVars,
    tcVars,
    wmVars,
    odVars>>

InitDiv ==
  /\ divA \in OperandExps
  /\ divB \in OperandExps
  /\ divGidx \in 0..MaxGidx
  /\ evIdiv = NoValue
  /\ evMod = NoValue
  /\ wgslSource = NoExp
  /\ gpuIdiv = NoValue

\* idiv(a, b).evaluate({gidx})
EvaluateIdiv ==
  /\ evIdiv = NoValue
  /\ evIdiv' = evaluate(idiv(divA, divB), Context(divGidx))
  /\ UNCHANGED <<divA, divB, divGidx, evMod, wgslSource, gpuIdiv>>
  /\ UNCHANGED NotDiv

\* mod(a, b).evaluate({gidx})
EvaluateMod ==
  /\ evMod = NoValue
  /\ evMod' = evaluate(mod(divA, divB), Context(divGidx))
  /\ UNCHANGED <<divA, divB, divGidx, evIdiv, wgslSource, gpuIdiv>>
  /\ UNCHANGED NotDiv

\* pipelineSource(nargs, idiv(a, b))
PipelineSource ==
  /\ wgslSource = NoExp
  /\ wgslSource' = pipelineSource(idiv(divA, divB))
  /\ UNCHANGED <<divA, divB, divGidx, evIdiv, evMod, gpuIdiv>>
  /\ UNCHANGED NotDiv

\* The compiled shader runs for the invocation id.x = gidx.
PipelineSubmit ==
  /\ wgslSource # NoExp
  /\ gpuIdiv = NoValue
  /\ gpuIdiv' = wgslEval(wgslSource, divGidx)
  /\ UNCHANGED <<divA, divB, divGidx, evIdiv, evMod, wgslSource>>
  /\ UNCHANGED NotDiv

NextDiv == EvaluateIdiv \/ EvaluateMod \/ PipelineSource \/ PipelineSubmit

InitSpecDiv ==
  InitDiv /\ InitAluIdle /\ InitBackendIdle /\ InitTraceIdle /\ InitArrayIdle
    /\ InitViewIdle /\ InitJvpIdle /\ InitVmapIdle
    /\ InitShaderIdle
    /\ InitRefcountIdle
    /\ InitBindIdle
    /\ InitSubmitIdle
    /\ InitTypecheckIdle
    /\ InitWasmIdle
    /\ InitOptaxIdle

SpecDiv == InitSpecDiv /\ [][NextDiv]_vars

\* The integer values of the two operands at the invocation.
OperandA == evaluate(divA, Context(divGidx))[2]
OperandB == evaluate(divB, Context(divGidx))[2]

\* q is the floor of the real quotient a / b, b # 0.
IsFloorOfQuotient(q, a, b) ==
  IF b > 0 THEN b * q <= a /\ a < b * q + b
  ELSE b * q >= a /\ a > b * q + b

\* C3 (as stated): in the evaluator idiv is floor division and mod is its
\* complement: for all integers a, b with b # 0, evaluate(idiv(a, b)) is
\* floor(a / b) and a = b * evaluate(idiv(a, b)) + evaluate(mod(a, b)).
C3_IdivFloorModComplement ==
  (evIdiv # NoValue /\ evMod # NoValue /\ OperandB # 0) =>
    /\ IsNum(evIdiv) /\ IsNum(evMod)
    /\ IsFloorOfQuotient(evIdiv[2], OperandA, OperandB)
    /\ OperandA = OperandB * evIdiv[2] + evMod[2]

\* C4 (as stated): the WGSL expression emitted for idiv(a, b) evaluates to
\* floor(a / b), the value AluExp.evaluate gives for the node, for all int32
\* a, b with b # 0.
C4_WgslIdivIsFloor ==
  (gpuIdiv # NoValue /\ evIdiv # NoValue /\ OperandB # 0) =>
    /\ gpuIdiv = evIdiv
    /\ IsFloorOfQuotient(gpuIdiv[2], OperandA, OperandB)

(***************************************************************************)
(* Backends: CPUBackend, WasmBackend and WebGPUBackend keep a table        *)
(* Map<Slot, {ref, buffer}> and a counter nextSlot.  The Wasm backend      *)
(* places its buffers in one linear memory with a bump allocator.          *)
(***************************************************************************)
BackendTypes == {"cpu", "wasm", "webgpu"}

\* Sizes handed to malloc, and byte lengths of initialData.
MallocSizes == {0, 4, 65}

\* Slot ids a caller can name: those malloc returned, and ids it never did.
SlotIds == 0..(MaxSlot + 1)

\* A rounding that goes down: Math.floor(size / 64) * 64
AlignUp_Floor(size) == (size \div 64) * 64

\* Math.ceil(size / 64) * 64
AlignUp(size) == ((size + 63) \div 64) * 64

\* The table without one slot (Map.delete).
Delete(bufs, slot) == [s \in (DOMAIN bufs) \ {slot} |-> bufs[s]]

\* The table with one more slot (Map.set).
Set(bufs, slot, buffer) ==
  [s \in (DOMAIN bufs) \cup {slot} |-> IF s = slot THEN buffer ELSE bufs[s]]

\* malloc(size, initialData): initialData is {} when absent, {byteLength}
\* otherwise.  The result names the error thrown, or "none", and the
\* backend's fields after the call.
malloc(type, bufs, next, head, size, initialData) ==
  IF initialData # {} /\ initialData # {size}
    THEN [err |-> "Error", buffers |-> bufs, nextSlot |-> next,
          headPtr |-> head, slot |-> 0]
    ELSE [err |-> "none",
          buffers |-> Set(bufs, next,
                          [ref |-> 1, size |-> size,
                           ptr |-> IF type = "wasm" THEN head ELSE 0]),
          nextSlot |-> next + 1,
          headPtr |-> IF type = "wasm" THEN head + AlignUp(size) ELSE head,
          slot |-> next]

\* incRef(slot)
incRef(bufs, slot) ==
  IF slot \notin DOMAIN bufs
    THEN [err |-> "SlotError", buffers |-> bufs]
    ELSE [err |-> "none", buffers |-> [bufs EXCEPT ![slot].ref = @ + 1]]

\* A decRef that frees the buffer one release early.
decRef_FreesEarly(bufs, slot) ==
  IF slot \notin DOMAIN bufs
    THEN [err |-> "SlotError", buffers |-> bufs]
    ELSE IF bufs[slot].ref - 1 <= 1
      THEN [err |-> "none", buffers |-> Delete(bufs, slot)]
      ELSE [err |-> "none", buffers |-> [bufs EXCEPT ![slot].ref = @ - 1]]

\* decRef(slot)
decRef(bufs, slot) ==
  IF slot \notin DOMAIN bufs
    THEN [err |-> "SlotError", buffers |-> bufs]
    ELSE IF bufs[slot].ref - 1 = 0
      THEN [err |-> "none", buffers |-> Delete(bufs, slot)]
      ELSE [err |-> "none", buffers |-> [bufs EXCEPT ![slot].ref = @ - 1]]

\* A lookup that only checks that the id was handed out at some point.
getBuffer_NoCheck(bufs, slot) ==
  IF slot \notin DOMAIN bufs /\ slot = 0 THEN "SlotError" ELSE "none"

\* #getBuffer(slot): the error it throws, or "none".
getBuffer(bufs, slot) ==
  IF slot \notin DOMAIN bufs THEN "SlotError" ELSE "none"

\* readSync(slot): WebGPU has no synchronous read.
readSync(type, bufs, slot) ==
  IF type = "webgpu" THEN "Error" ELSE getBuffer(bufs, slot)

\* read(slot): readSync on cpu and wasm, a staged copy on webgpu.
read(type, bufs, slot) ==
  IF type = "webgpu" THEN getBuffer(bufs, slot) ELSE readSync(type, bufs, slot)

\* dispatch(exe, inputs, outputs) (execute / executeSync on webgpu): every
\* input and output slot is looked up with #getBuffer before the kernel
\* runs.
dispatch(bufs, inputs, outputs) ==
  IF \E s \in inputs \cup outputs : getBuffer(bufs, s) # "none"
    THEN "SlotError" ELSE "none"

NotBackend ==
  <<aluVars, divVars, trVars, arVars, viewVars, jvpVars, vmVars,
    spVars,
    rcVars,
    bdVars,
    peVars,
    tcVars,
    wmVars,
    odVars>>

InitBackend ==
  \E type \in BackendTypes : InitBackendOf(type)

\* One call of backend.malloc(size, initialData) and what it leaves in the
\* backend.
BackendMalloc(size, initialData) ==
  LET r == malloc(bkType, buffers, nextSlot, headPtr, size, initialData)
  IN /\ buffers' = r.buffers
     /\ nextSlot' = r.nextSlot
     /\ headPtr' = r.headPtr
     /\ incCount' = IF r.err = "none"
                       THEN Set(incCount, r.slot, 0) ELSE incCount
     /\ decCount' = IF r.err = "none"
                       THEN Set(decCount, r.slot, 0) ELSE decCount
     /\ lastCall' = [op |-> "malloc",
                     slots |-> IF r.err = "none" THEN {r.slot} ELSE {},
                     err |-> r.err]
     /\ UNCHANGED bkType

Malloc ==
  /\ nextSlot <= MaxSlot
  /\ \E size \in MallocSizes, initialData \in {{}} \cup {{n} : n \in MallocSizes} :
       BackendMalloc(size, initialData)
  /\ UNCHANGED NotBackend

IncRef ==
  /\ \E slot \in SlotIds :
       LET r == incRef(buffers, slot)
       IN /\ slot \in DOMAIN buffers => incCount[slot] < MaxRef
          /\ buffers' = r.buffers
          /\ incCount' = IF r.err = "none"
                            THEN [incCount EXCEPT ![slot] = @ + 1] ELSE incCount
          /\ lastCall' = [op |-> "incRef", slots |-> {slot}, err |-> r.err]
  /\ UNCHANGED <<bkType, nextSlot, headPtr, decCount>>
  /\ UNCHANGED NotBackend

DecRef ==
  /\ \E slot \in SlotIds :
       LET r == decRef(buffers, slot)
       IN /\ buffers' = r.buffers
          /\ decCount' = IF r.err = "none"
                            THEN [decCount EXCEPT ![slot] = @ + 1] ELSE decCount
          /\ lastCall' = [op |-> "decRef", slots |-> {slot}, err |-> r.err]
  /\ UNCHANGED <<bkType, nextSlot, headPtr, incCount>>
  /\ UNCHANGED NotBackend

ReadSync ==
  /\ \E slot \in SlotIds :
       lastCall' = [op |-> "readSync", slots |-> {slot},
                    err |-> readSync(bkType, buffers, slot)]
  /\ UNCHANGED <<bkType, buffers, nextSlot, headPtr, incCount, decCount>>
  /\ UNCHANGED NotBackend

Read ==
  /\ \E slot \in SlotIds :
       lastCall' = [op |-> "read", slots |-> {slot},
                    err |-> read(bkType, buffers, slot)]
  /\ UNCHANGED <<bkType, buffers, nextSlot, headPtr, incCount, decCount>>
  /\ UNCHANGED NotBackend

Dispatch ==
  /\ \E input \in SlotIds, output \in SlotIds :
       lastCall' = [op |-> "dispatch", slots |-> {input, output},
                    err |-> dispatch(buffers, {input}, {output})]
  /\ UNCHANGED <<bkType, buffers, nextSlot, headPtr, incCount, decCount>>
  /\ UNCHANGED NotBackend

NextBackend == Malloc \/ IncRef \/ DecRef \/ ReadSync \/ Read \/ Dispatch

InitSpecBackend ==
  InitBackend /\ InitAluIdle /\ InitDivIdle /\ InitTraceIdle /\ InitArrayIdle
    /\ InitViewIdle /\ InitJvpIdle /\ InitVmapIdle
    /\ InitShaderIdle
    /\ InitRefcountIdle
    /\ InitBindIdle
    /\ InitSubmitIdle
    /\ InitTypecheckIdle
    /\ InitWasmIdle
    /\ InitOptaxIdle

SpecBackend == InitSpecBackend /\ [][NextBackend]_vars

\* The slots malloc has returned so far.
Returned == 1..(nextSlot - 1)

\* 1 + (incRef calls on s) - (decRef calls on s)
Count(s) == 1 + incCount[s] - decCount[s]

\* C5: on every backend, malloc returns a slot whose count is 1; a slot is
\* in the buffer table exactly while 1 + #incRef - #decRef > 0, with that
\* count; so its buffer is removed at the decRef that brings the count to
\* zero, never earlier.
C5_RefCount ==
  /\ (lastCall.op = "malloc" /\ lastCall.err = "none") =>
        \A s \in lastCall.slots : s \in DOMAIN buffers /\ buffers[s].ref = 1
  /\ DOMAIN buffers \subseteq Returned
  /\ \A s \in Returned :
        /\ (s \in DOMAIN buffers) <=> (Count(s) > 0)
        /\ s \in DOMAIN buffers => buffers[s].ref = Count(s)
        /\ Count(s) >= 0

\* Witness of C5: a slot that was incRef-ed has been released down to
\* zero and is gone, while another slot is still live.
C5_Witness ==
  \E s, t \in Returned :
    /\ incCount[s] >= 1 /\ Count(s) = 0 /\ s \notin DOMAIN buffers
    /\ t \in DOMAIN buffers
    /\ lastCall.op = "decRef" /\ lastCall.slots = {s} /\ lastCall.err = "none"

\* The call made by a step names a slot that is not in the table.
NamesDeadSlot ==
  /\ lastCall'.op \in {"incRef", "decRef", "read", "readSync", "dispatch"}
  /\ \E s \in lastCall'.slots : s \notin DOMAIN buffers

\* C6: once a slot's count has reached zero, or for an id malloc never
\* returned, every incRef, decRef, read / readSync or dispatch naming it
\* raises an error and leaves the buffer table unchanged; slot ids are
\* never reused, so a freed id never comes back into the table.
C6_DeadSlotIsError ==
  [][/\ NamesDeadSlot => (lastCall'.err # "none" /\ buffers' = buffers)
     /\ \A s \in Returned : s \notin DOMAIN buffers => s \notin DOMAIN buffers'
     /\ nextSlot' >= nextSlot]_vars

\* Witness of C6: a double free: decRef on a slot that was freed, after a
\* further malloc, has thrown SlotError.
C6_Witness ==
  \E s \in Returned :
    /\ Count(s) = 0
    /\ s < nextSlot - 1
    /\ lastCall = [op |-> "decRef", slots |-> {s}, err |-> "SlotError"]

\* The byte ranges [ptr, ptr + size) of two buffers do not meet.
DisjointRanges(a, b) == a.ptr + a.size <= b.ptr \/ b.ptr + b.size <= a.ptr

\* C20: in the Wasm backend, after any sequence of malloc calls (any sizes,
\* zero included, with or without initial data), every buffer starts at a
\* multiple of 64 and the byte ranges of any two live buffers are disjoint;
\* a malloc whose initialData length differs from the requested size fails
\* without creating a slot or moving the allocation pointer.
C20_WasmMallocAligned ==
  [][bkType = "wasm" =>
       /\ \A s \in DOMAIN buffers' : buffers'[s].ptr % 64 = 0
       /\ \A s \in DOMAIN buffers', t \in DOMAIN buffers' :
            s # t => DisjointRanges(buffers'[s], buffers'[t])
       /\ \A size \in MallocSizes, n \in MallocSizes :
            (n # size /\ BackendMalloc(size, {n})) =>
              /\ lastCall'.err = "Error"
              /\ buffers' = buffers
              /\ nextSlot' = nextSlot
              /\ headPtr' = headPtr]_vars

\* Witness of C20: after a malloc of 65 bytes and a malloc of 4 bytes on the
\* Wasm backend, both buffers are live, at 0 and at 128, and the next free
\* byte is 192.
C20_Witness ==
  /\ bkType = "wasm"
  /\ DOMAIN buffers = {1, 2}
  /\ buffers[1].ptr = 0 /\ buffers[1].size = 65
  /\ buffers[2].ptr = 128 /\ buffers[2].size = 4
  /\ headPtr = 192

(***************************************************************************)
(* The interpreter stack.  jvpFlat and vmapFlat push a MainTrace with      *)
(* `using main = newMain(...)` and call the traced function f, which may   *)
(* itself call jvp or vmap, return, or throw.                              *)
(***************************************************************************)
NotTrace ==
  <<aluVars, divVars, bkVars, arVars, viewVars, jvpVars, vmVars,
    spVars,
    rcVars,
    bdVars,
    peVars,
    tcVars,
    wmVars,
    odVars>>

\* Array.prototype.pop
pop(stack) ==
  IF stack = <<>> THEN stack ELSE SubSeq(stack, 1, Len(stack) - 1)

\* newMain(traceType): level = traceStack.length; traceStack.push(main)
newMain(stack, traceType) == Append(stack, MainTrace(Len(stack), traceType))

\* A disposal that runs only when the block is left by a return.
dispose_OnReturnOnly(stack, outcome) ==
  IF outcome = "return" THEN pop(stack) ELSE stack

\* [Symbol.dispose]() of the `using main` binding: runs when the block is
\* left, by a return or by a throw.
dispose(stack, outcome) == pop(stack)

\* A call in progress: which function, and the stack it was entered with.
Call(fn, saved) == [fn |-> fn, saved |-> saved]

\* The traced function of the innermost call is running (or top-level code,
\* when no call is in progress), and no error is in flight.
Running == thrown = "none"

\* jvpFlat up to the call of f.
JvpFlatEnter ==
  /\ Running
  /\ Len(callStack) < MaxNest
  /\ traceStack' = newMain(traceStack, "JVPTrace")
  /\ callStack' = Append(callStack, Call("jvpFlat", traceStack))
  /\ UNCHANGED <<thrown, lastExit>>
  /\ UNCHANGED NotTrace

\* vmapFlat whose argument checks fail: TypeError before newMain.
VmapFlatBadArgs ==
  /\ Running
  /\ Len(callStack) < MaxNest
  /\ thrown' = "TypeError"
  /\ lastExit' = [fn |-> "vmapFlat", outcome |-> "throw",
                  level |-> Len(traceStack)]
  /\ UNCHANGED <<traceStack, callStack>>
  /\ UNCHANGED NotTrace

\* vmapFlat up to the call of f.
VmapFlatEnter ==
  /\ Running
  /\ Len(callStack) < MaxNest
  /\ traceStack' = newMain(traceStack, "BatchTrace")
  /\ callStack' = Append(callStack, Call("vmapFlat", traceStack))
  /\ UNCHANGED <<thrown, lastExit>>
  /\ UNCHANGED NotTrace

\* f returned and every output was raised: the block is left normally.
\* In vmapFlat, moveBatchAxis runs after the block and may still throw.
FlatReturn ==
  /\ Running
  /\ callStack # <<>>
  /\ LET call == callStack[Len(callStack)]
     IN \E outcome \in IF call.fn = "vmapFlat" THEN {"return", "throw"}
                                               ELSE {"return"} :
          /\ traceStack' = dispose(traceStack, "return")
          /\ callStack' = pop(callStack)
          /\ thrown' = IF outcome = "throw" THEN "Error" ELSE "none"
          /\ lastExit' = [fn |-> call.fn, outcome |-> outcome,
                          level |-> Len(call.saved)]
  /\ UNCHANGED NotTrace

\* The block is left by an error: f threw, a primitive had no rule, or
\* fullRaise rejected an output; or an error of a nested call was not
\* caught by f.
FlatThrow ==
  /\ callStack # <<>>
  /\ LET call == callStack[Len(callStack)]
     IN /\ traceStack' = dispose(traceStack, "throw")
        /\ callStack' = pop(callStack)
        /\ thrown' = IF thrown = "none" THEN "Error" ELSE thrown
        /\ lastExit' = [fn |-> call.fn, outcome |-> "throw",
                        level |-> Len(call.saved)]
  /\ UNCHANGED NotTrace

\* The caller (f of the enclosing call, or top-level code) catches the
\* error in flight.
Catch ==
  /\ thrown # "none"
  /\ thrown' = "none"
  /\ UNCHANGED <<traceStack, callStack, lastExit>>
  /\ UNCHANGED NotTrace

NextTrace ==
  JvpFlatEnter \/ VmapFlatBadArgs \/ VmapFlatEnter \/ FlatReturn
    \/ FlatThrow \/ Catch

InitSpecTrace ==
  InitTraceIdle /\ InitAluIdle /\ InitDivIdle /\ InitBackendIdle /\ InitArrayIdle
    /\ InitViewIdle /\ InitJvpIdle /\ InitVmapIdle
    /\ InitShaderIdle
    /\ InitRefcountIdle
    /\ InitBindIdle
    /\ InitSubmitIdle
    /\ InitTypecheckIdle
    /\ InitWasmIdle
    /\ InitOptaxIdle

SpecTrace == InitSpecTrace /\ [][NextTrace]_vars

\* A step in which a jvpFlat / vmapFlat call ends.
CallEnds == Len(callStack') < Len(callStack)

\* C7: when a jvp or vmap call, nested to any depth, returns or throws,
\* the interpreter stack is the one the call was entered with; a vmap call
\* rejected before it pushes leaves the stack as it was; and entry 0 of
\* the stack is always the evaluator.
C7_StackRestored ==
  [][/\ CallEnds => traceStack' = callStack[Len(callStack)].saved
     /\ (thrown = "none" /\ thrown' = "TypeError") => traceStack' = traceStack
     /\ traceStack # <<>> /\ traceStack[1] = MainTrace(0, "EvalTrace")
     /\ traceStack' # <<>> /\ traceStack'[1] = MainTrace(0, "EvalTrace")
     /\ \A i \in 1..Len(traceStack') : traceStack'[i].level = i - 1]_vars

\* Witness of C7: a vmap call nested inside two other calls has ended by a
\* throw that its caller has not caught, and the two outer levels are
\* still on the stack.
C7_Witness ==
  /\ lastExit = [fn |-> "vmapFlat", outcome |-> "throw", level |-> 3]
  /\ thrown = "Error"
  /\ Len(callStack) = 2
  /\ Len(traceStack) = 3

(***************************************************************************)
(* Lazy arrays.  An Array is backed by an AluExp or by a Slot; a           *)
(* slot-backed Array carries the set of PendingExecute kernels that still  *)
(* have to run before the slot holds its value.  A JavaScript Set iterates *)
(* in insertion order, so a pending set is a sequence without duplicates.  *)
(* The expressions themselves are not tracked, only the slots they read.   *)
(***************************************************************************)
NotArray ==
  <<aluVars, divVars, trVars, viewVars, jvpVars, vmVars,
    spVars,
    rcVars,
    bdVars,
    peVars,
    tcVars,
    wmVars,
    odVars>>

\* st.size of the arrays that are created.
Sizes == {1, 2}

\* A source that is an AluExp rather than a Slot (slots start at 1).
IsAluExp(source) == source = 0

SeqToSet(seq) == {seq[i] : i \in DOMAIN seq}

\* new Set(items): the first occurrence of every element, in order.
RECURSIVE newSet(_)
newSet(items) ==
  IF items = <<>> THEN <<>>
  ELSE LET rest == newSet(SubSeq(items, 1, Len(items) - 1))
           last == items[Len(items)]
       IN IF last \in SeqToSet(rest) THEN rest ELSE Append(rest, last)

\* new PendingExecute(exp, inputs, [output])
PendingExecute(inputs, output) ==
  [inputs |-> inputs, output |-> output, prepared |-> FALSE,
   submitted |-> FALSE, promise |-> "none"]

\* new Array(source, st, dtype, backend, pending); a null pending is <<>>.
Array(source, size, pending) ==
  [source |-> source, size |-> size, pending |-> pending]

\* A pending set that lists the new kernel ahead of the operands' kernels.
binaryPending_NewFirst(thisPending, otherPending, kernel) ==
  newSet(<<kernel>> \o thisPending \o otherPending)

\* new Set([...this.#pending ?? [], ...other.#pending ?? [], kernel])
binaryPending(thisPending, otherPending, kernel) ==
  newSet(thisPending \o otherPending \o <<kernel>>)

\* The slots #binary passes as inputs: the slot-backed operands, in order.
binaryInputs(this, other) ==
  (IF IsAluExp(this.source) THEN <<>> ELSE <<this.source>>)
    \o (IF IsAluExp(other.source) THEN <<>> ELSE <<other.source>>)

\* Array.zeros / Array.ones
Zeros ==
  /\ Len(arrays) < MaxArrays
  /\ \E size \in Sizes : arrays' = Append(arrays, Array(0, size, <<>>))
  /\ UNCHANGED <<kernels, calls, bkVars>>
  /\ UNCHANGED NotArray

\* new Array(backend.malloc(size * 4, data), st, dtype, backend): an array
\* over a buffer that is already filled.
FromSlot ==
  /\ Len(arrays) < MaxArrays
  /\ \E size \in Sizes :
       /\ BackendMalloc(size * 4, {size * 4})
       /\ arrays' = Append(arrays, Array(nextSlot, size, <<>>))
  /\ UNCHANGED <<kernels, calls>>
  /\ UNCHANGED NotArray

\* this.add(other) / sub / mul, i.e. #binary.  Operands of different shape
\* make it throw before anything is changed.
Binary ==
  /\ Len(arrays) < MaxArrays
  /\ \E i \in DOMAIN arrays, j \in DOMAIN arrays :
       LET this == arrays[i]
           other == arrays[j]
       IN /\ this.size = other.size
          /\ IF IsAluExp(this.source) /\ IsAluExp(other.source)
               THEN /\ arrays' = Append(arrays, Array(0, this.size, <<>>))
                    /\ UNCHANGED <<kernels, bkVars>>
               ELSE /\ BackendMalloc(this.size * 4, {})
                    /\ kernels' = Append(kernels,
                          PendingExecute(binaryInputs(this, other), nextSlot))
                    /\ arrays' = Append(arrays,
                          Array(nextSlot, this.size,
                                binaryPending(this.pending, other.pending,
                                              Len(kernels) + 1)))
  /\ UNCHANGED calls
  /\ UNCHANGED NotArray

\* p.submit(backend) on kernel p: "skip", the error thrown, or "none" when
\* backend.dispatch was called and returned.
submit(p, bufs) ==
  IF p.submitted THEN "skip"
  ELSE IF ~p.prepared THEN "Error"
  ELSE dispatch(bufs, SeqToSet(p.inputs), {p.output})

\* The backend.dispatch call that submit makes for kernel p.
dispatchCall(p, bufs) ==
  [op |-> "dispatch", slots |-> SeqToSet(p.inputs) \cup {p.output},
   err |-> dispatch(bufs, SeqToSet(p.inputs), {p.output})]

\* for (const p of array.#pending) p.submit(backend): the kernels that were
\* dispatched, in order, the error that ended the loop, if any, and the
\* last backend call the loop made.
RECURSIVE submitLoop(_, _, _)
submitLoop(pending, kern, bufs) ==
  IF pending = <<>>
    THEN [dispatched |-> <<>>, err |-> "none", call |-> NoCall]
  ELSE LET p == kern[Head(pending)]
           r == submit(p, bufs)
       IN IF r = "skip" THEN submitLoop(Tail(pending), kern, bufs)
          ELSE IF r = "Error"
            THEN [dispatched |-> <<>>, err |-> r, call |-> NoCall]
          ELSE IF r # "none"
            THEN [dispatched |-> <<>>, err |-> r, call |-> dispatchCall(p, bufs)]
          ELSE LET rest == submitLoop(Tail(pending), kern, bufs)
               IN [dispatched |-> <<Head(pending)>> \o rest.dispatched,
                   err |-> rest.err,
                   call |-> IF rest.call = NoCall
                              THEN dispatchCall(p, bufs) ELSE rest.call]

\* dataSync's loop: p.prepareSync(backend); p.submit(backend) for every
\* pending kernel.  prepareSync sets `prepared` unless it is set already.
RECURSIVE dataSyncLoop(_, _, _)
dataSyncLoop(pending, kern, bufs) ==
  IF pending = <<>>
    THEN [kernels |-> kern, dispatched |-> <<>>, err |-> "none",
          call |-> NoCall]
  ELSE LET k == Head(pending)
           kern1 == [kern EXCEPT ![k].prepared = TRUE]
           r == submitLoop(<<k>>, kern1, bufs)
       IN IF r.err # "none"
            THEN [kernels |-> kern1, dispatched |-> <<>>, err |-> r.err,
                  call |-> r.call]
            ELSE LET rest == dataSyncLoop(Tail(pending), kern1, bufs)
                 IN [kernels |-> rest.kernels,
                     dispatched |-> r.dispatched \o rest.dispatched,
                     err |-> rest.err,
                     call |-> IF rest.call = NoCall THEN r.call ELSE rest.call]

\* A Promise.all that settles as soon as one of the promises is fulfilled.
promiseAll_Any(kern, awaited) ==
  IF \E k \in awaited : kern[k].promise = "rejected" THEN "rejected"
  ELSE IF awaited = {} \/ \E k \in awaited : kern[k].promise = "fulfilled"
    THEN "fulfilled"
  ELSE "pending"

\* Promise.all over the prepare() promises of the kernels in awaited.
promiseAll(kern, awaited) ==
  IF \E k \in awaited : kern[k].promise = "rejected" THEN "rejected"
  ELSE IF \A k \in awaited : kern[k].promise = "fulfilled" THEN "fulfilled"
  ELSE "pending"

\* A data() or dataSync() call.
DataCall(kind, source, pending, awaited, pc, dispatched, err) ==
  [kind |-> kind, source |-> source, pending |-> pending,
   awaited |-> awaited, pc |-> pc, dispatched |-> dispatched, err |-> err]

\* #toSlot(): the array itself when it is slot-backed; otherwise a new
\* array over a fresh slot `next`, with one kernel that fills it.
toSlot(array, kern, next) ==
  IF ~IsAluExp(array.source)
    THEN [array |-> array, kernels |-> kern, malloc |-> FALSE]
    ELSE [array |-> Array(next, array.size, <<Len(kern) + 1>>),
          kernels |-> Append(kern, PendingExecute(<<>>, next)),
          malloc |-> TRUE]

\* The backend after the calls one data() / dataSync() step makes: the
\* malloc of #toSlot, if it ran, and then the call `call`.
BackendAfter(mallocRan, size, call) ==
  LET r == malloc(bkType, buffers, nextSlot, headPtr, size, {})
  IN /\ buffers' = IF mallocRan THEN r.buffers ELSE buffers
     /\ nextSlot' = IF mallocRan THEN r.nextSlot ELSE nextSlot
     /\ headPtr' = IF mallocRan THEN r.headPtr ELSE headPtr
     /\ incCount' = IF mallocRan THEN Set(incCount, r.slot, 0) ELSE incCount
     /\ decCount' = IF mallocRan THEN Set(decCount, r.slot, 0) ELSE decCount
     /\ lastCall' = IF call # NoCall THEN call
                     ELSE IF mallocRan
                       THEN [op |-> "malloc", slots |-> {r.slot}, err |-> "none"]
                     ELSE lastCall
     /\ UNCHANGED bkType

\* exe.prepare(backend) for every kernel of `pending`: a kernel that is
\* neither prepared nor being prepared gets a promise for backend.prepare.
startPrepare(kern, pending) ==
  [k \in DOMAIN kern |->
     IF k \in SeqToSet(pending) /\ ~kern[k].prepared
          /\ kern[k].promise = "none"
       THEN [kern[k] EXCEPT !.promise = "pending"] ELSE kern[k]]

\* data() up to its first await: #toSlot, then prepare() on every pending
\* kernel and `await Promise.all`; without a pending set, backend.read.
DataStart ==
  /\ Len(calls) < MaxCalls
  /\ \E i \in DOMAIN arrays :
       LET t == toSlot(arrays[i], kernels, nextSlot)
           array == t.array
           awaited == {k \in SeqToSet(array.pending) : ~t.kernels[k].prepared}
           e == read(bkType, buffers, array.source)
       IN /\ kernels' = startPrepare(t.kernels, array.pending)
          /\ IF array.pending # <<>>
               THEN /\ calls' = Append(calls,
                          DataCall("data", array.source, array.pending,
                                   awaited, "awaitPrepare", <<>>, "none"))
                    /\ BackendAfter(t.malloc, array.size * 4, NoCall)
               ELSE /\ calls' = Append(calls,
                          DataCall("data", array.source, array.pending, {},
                                   IF e = "none" THEN "awaitRead" ELSE "thrown",
                                   <<>>, e))
                    /\ BackendAfter(t.malloc, array.size * 4,
                          [op |-> "read", slots |-> {array.source}, err |-> e])
  /\ UNCHANGED arrays
  /\ UNCHANGED NotArray

\* backend.prepare resolves for kernel k: this.prepared = await ...
PrepareFulfil ==
  /\ \E k \in DOMAIN kernels :
       /\ kernels[k].promise = "pending"
       /\ kernels' = [kernels EXCEPT ![k].promise = "fulfilled",
                                      ![k].prepared = TRUE]
  /\ UNCHANGED <<arrays, calls, bkVars>>
  /\ UNCHANGED NotArray

\* backend.prepare rejects for kernel k.
PrepareReject ==
  /\ \E k \in DOMAIN kernels :
       /\ kernels[k].promise = "pending"
       /\ kernels' = [kernels EXCEPT ![k].promise = "rejected"]
  /\ UNCHANGED <<arrays, calls, bkVars>>
  /\ UNCHANGED NotArray

\* data() after Promise.all is fulfilled: the submit loop, then
\* backend.read on the output slot.
DataResume ==
  /\ \E c \in DOMAIN calls :
       LET call == calls[c]
           r == submitLoop(call.pending, kernels, buffers)
           e == read(bkType, buffers, call.source)
       IN /\ call.pc = "awaitPrepare"
          /\ promiseAll(kernels, call.awaited) = "fulfilled"
          /\ IF r.err # "none"
               THEN /\ calls' = [calls EXCEPT ![c].pc = "thrown",
                                              ![c].dispatched = r.dispatched,
                                              ![c].err = r.err]
                    /\ BackendAfter(FALSE, 0, r.call)
               ELSE /\ calls' = [calls EXCEPT
                          ![c].pc = IF e = "none" THEN "awaitRead" ELSE "thrown",
                          ![c].dispatched = r.dispatched,
                          ![c].err = e]
                    /\ BackendAfter(FALSE, 0,
                          [op |-> "read", slots |-> {call.source}, err |-> e])
  /\ UNCHANGED <<arrays, kernels>>
  /\ UNCHANGED NotArray

\* data() after Promise.all is rejected: the error propagates, nothing is
\* submitted.
DataReject ==
  /\ \E c \in DOMAIN calls :
       /\ calls[c].pc = "awaitPrepare"
       /\ promiseAll(kernels, calls[c].awaited) = "rejected"
       /\ calls' = [calls EXCEPT ![c].pc = "thrown", ![c].err = "Error"]
  /\ UNCHANGED <<arrays, kernels, bkVars>>
  /\ UNCHANGED NotArray

\* backend.read resolves and data() returns the Float32Array.
DataReturn ==
  /\ \E c \in DOMAIN calls :
       /\ calls[c].pc = "awaitRead"
       /\ calls' = [calls EXCEPT ![c].pc = "done"]
  /\ UNCHANGED <<arrays, kernels, bkVars>>
  /\ UNCHANGED NotArray

\* dataSync(): #toSlot, prepareSync and submit per pending kernel, then
\* backend.readSync.
DataSync ==
  /\ Len(calls) < MaxCalls
  /\ \E i \in DOMAIN arrays :
       LET t == toSlot(arrays[i], kernels, nextSlot)
           array == t.array
           bufs == IF t.malloc
                     THEN malloc(bkType, buffers, nextSlot, headPtr,
                                 array.size * 4, {}).buffers
                     ELSE buffers
           r == dataSyncLoop(array.pending, t.kernels, bufs)
           e == readSync(bkType, bufs, array.source)
       IN /\ kernels' = r.kernels
          /\ IF r.err # "none"
               THEN /\ calls' = Append(calls,
                          DataCall("dataSync", array.source, array.pending,
                                   {}, "thrown", r.dispatched, r.err))
                    /\ BackendAfter(t.malloc, array.size * 4, r.call)
               ELSE /\ calls' = Append(calls,
                          DataCall("dataSync", array.source, array.pending,
                                   {}, IF e = "none" THEN "done" ELSE "thrown",
                                   r.dispatched, e))
                    /\ BackendAfter(t.malloc, array.size * 4,
                          [op |-> "readSync", slots |-> {array.source},
                           err |-> e])
  /\ UNCHANGED arrays
  /\ UNCHANGED NotArray

NextArray ==
  Zeros \/ FromSlot \/ Binary \/ DataStart \/ PrepareFulfil \/ PrepareReject
    \/ DataResume \/ DataReject \/ DataReturn \/ DataSync

InitSpecArray ==
  InitArrayIdle /\ InitBackendIdle /\ InitAluIdle /\ InitDivIdle
    /\ InitTraceIdle /\ InitViewIdle /\ InitJvpIdle /\ InitVmapIdle
    /\ InitShaderIdle
    /\ InitRefcountIdle
    /\ InitBindIdle
    /\ InitSubmitIdle
    /\ InitTypecheckIdle
    /\ InitWasmIdle
    /\ InitOptaxIdle

SpecArray == InitSpecArray /\ [][NextArray]_vars

\* backend.read / readSync has been called by this data() / dataSync().
HasRead(call) == call.pc \in {"awaitRead", "done"}

\* C8: a data() call dispatches no pending kernel of its array until
\* prepare has completed for every pending kernel of that array, and it has
\* dispatched every pending kernel of the array when it reads the output
\* slot.
C8_PrepareAllThenDispatchThenRead ==
  [][\A c \in DOMAIN calls' :
       LET call == calls'[c]
       IN call.kind = "data" =>
            /\ call.dispatched # <<>> =>
                 \A k \in SeqToSet(call.pending) : kernels'[k].prepared
            /\ HasRead(call) => call.dispatched = call.pending]_vars

\* Witness of C8: a data() call on an array with two pending kernels, which
\* had to wait for both to be prepared, has dispatched both and is reading.
C8_Witness ==
  \E c \in DOMAIN calls :
    /\ calls[c].kind = "data"
    /\ Cardinality(calls[c].awaited) >= 2
    /\ calls[c].pc = "awaitRead"
    /\ calls[c].dispatched = calls[c].pending

\* The kernels that write slot s.
Writers(s) == {j \in DOMAIN kernels : kernels[j].output = s}

\* Every kernel that writes an input of a kernel of `pending`, or the slot
\* `source`, is in `pending`.
Closed(pending, source) ==
  /\ Writers(source) \subseteq SeqToSet(pending)
  /\ \A k \in SeqToSet(pending) :
       \A s \in SeqToSet(kernels[k].inputs) :
         Writers(s) \subseteq SeqToSet(pending)

\* Every kernel of `order` comes after the kernels that write its inputs.
Topological(order) ==
  \A p \in DOMAIN order :
    \A s \in SeqToSet(kernels[order[p]].inputs) :
      \A j \in Writers(s) : \E q \in 1..(p - 1) : order[q] = j

NotView ==
  <<aluVars, divVars, bkVars, trVars, arVars, jvpVars, vmVars,
    spVars,
    rcVars,
    bdVars,
    peVars,
    tcVars,
    wmVars,
    odVars>>

\* The value of an optional argument that is given.
The(opt) == CHOOSE x \in opt : TRUE

\* rep(n, value)
rep(n, value) == [i \in 1..n |-> value]

\* shape[from] * ... * shape[Len(shape)]
RECURSIVE suffixProduct(_, _)
suffixProduct(shape, from) ==
  IF from > Len(shape) THEN 1
  ELSE shape[from] * suffixProduct(shape, from + 1)

\* canonicalizeStrides(shape, strides)
canonicalizeStrides(shape, strides) ==
  [i \in 1..Len(shape) |-> IF shape[i] = 1 THEN 0 ELSE strides[i]]

\* defaultStrides(shape): row-major; the last stride is 1 and
\* strides[i - 1] = shape[i] * strides[i].
defaultStrides(shape) ==
  [i \in 1..Len(shape) |-> suffixProduct(shape, i + 1)]

\* mask.every(([b, e], i) => b === 0 && e === shape[i])
IsDefaultMask(shape, mask) ==
  \A i \in 1..Len(mask) : mask[i][1] = 0 /\ mask[i][2] = shape[i]

\* The dimensions a mask restricts to at most one index.
elimDims(shape, mask) == {i \in 1..Len(shape) : mask[i][1] + 1 >= mask[i][2]}

\* Some dimension of the mask is empty.
hasNoData(shape, mask) == \E i \in 1..Len(shape) : mask[i][1] >= mask[i][2]

\* View.create(shape, strides, offset, mask): the error thrown, or "none",
\* and the view returned.
create(shape, strides, offset, mask) ==
  IF \E i \in 1..Len(shape) : shape[i] < 0
    THEN [err |-> "Error", view |-> NoView]
  ELSE
    LET strides1 == IF strides # Absent
                      THEN canonicalizeStrides(shape, The(strides))
                      ELSE defaultStrides(shape)
        mask1 == IF mask # Absent /\ IsDefaultMask(shape, The(mask))
                   THEN Absent ELSE mask
        elim == IF mask1 = Absent THEN {} ELSE elimDims(shape, The(mask1))
        noData == mask1 # Absent /\ elim # {} /\ hasNoData(shape, The(mask1))
        strides2 == IF noData THEN rep(Len(shape), 0) ELSE strides1
        strides3 == [i \in 1..Len(shape) |->
                       IF i \in elim THEN 0 ELSE strides2[i]]
    IN IF \E i \in 1..Len(shape) : shape[i] = 0
         THEN [err |-> "none",
               view |-> View(shape, rep(Len(shape), 0), 0, Absent)]
         ELSE [err |-> "none", view |-> View(shape, strides3, 0, Absent)]

\* The shapes, strides and masks View.create is called with.
Shapes == UNION {[1..n -> -1..MaxDim] : n \in 0..MaxRank}

StridesFor(shape) ==
  {Absent} \cup {Some(st) : st \in [1..Len(shape) -> 0..MaxStride]}

MasksFor(shape) ==
  {Absent} \cup {Some(m) : m \in [1..Len(shape) -> (0..MaxDim) \X (0..MaxDim)]}

InitView ==
  /\ \E shape \in Shapes :
       \E strides \in StridesFor(shape), offset \in 0..1,
          mask \in MasksFor(shape) :
         viewArgs = View(shape, strides, offset, mask)
  /\ view = NoView
  /\ viewPc = "args"
  /\ viewContiguous = FALSE

ViewCreate ==
  /\ viewPc = "args"
  /\ LET r == create(viewArgs.shape, viewArgs.strides, viewArgs.offset,
                     viewArgs.mask)
     IN /\ view' = r.view
        /\ viewPc' = IF r.err = "none" THEN "created" ELSE "thrown"
  /\ UNCHANGED <<viewArgs, viewContiguous>>
  /\ UNCHANGED NotView

\* get size(): the product of the shape.
size(v) == suffixProduct(v.shape, 1)

\* get contiguous()
contiguous(v) ==
  IF size(v) = 0 THEN TRUE
  ELSE /\ v.offset = 0
       /\ v.mask = Absent
       /\ v.strides = defaultStrides(v.shape)

\* Reading view.contiguous on the view that was created.
ViewContiguous ==
  /\ viewPc = "created"
  /\ viewContiguous' = contiguous(view)
  /\ viewPc' = "queried"
  /\ UNCHANGED <<viewArgs, view>>
  /\ UNCHANGED NotView

NextView == ViewCreate \/ ViewContiguous

InitSpecView ==
  InitView /\ InitAluIdle /\ InitDivIdle /\ InitBackendIdle /\ InitTraceIdle
    /\ InitArrayIdle /\ InitJvpIdle /\ InitVmapIdle
    /\ InitShaderIdle
    /\ InitRefcountIdle
    /\ InitBindIdle
    /\ InitSubmitIdle
    /\ InitTypecheckIdle
    /\ InitWasmIdle
    /\ InitOptaxIdle

SpecView == InitSpecView /\ [][NextView]_vars

\* C10: every view returned by View.create, with or without explicit
\* strides, has stride 0 on every dimension of size 1.
C10_SizeOneStrideZero ==
  viewPc \in {"created", "queried"} =>
    \A i \in 1..Len(view.shape) : view.shape[i] = 1 => view.strides[i] = 0

\* The strides View.create starts from: the canonicalized explicit strides,
\* or the default ones.
OriginalStrides(args) ==
  IF args.strides # Absent
    THEN canonicalizeStrides(args.shape, The(args.strides))
    ELSE defaultStrides(args.shape)

\* The dimensions of size greater than 1 that the mask restricts to the
\* single index b, i.e. to the range [b, b + 1).
Collapsed(args) ==
  {i \in 1..Len(args.shape) :
     args.shape[i] > 1 /\ The(args.mask)[i][2] = The(args.mask)[i][1] + 1}

\* The sum of b * (original stride) over the collapsed dimensions from
\* `from` on.
RECURSIVE CollapsedOffset(_, _)
CollapsedOffset(args, from) ==
  IF from > Len(args.shape) THEN 0
  ELSE (IF from \in Collapsed(args)
          THEN The(args.mask)[from][1] * OriginalStrides(args)[from] ELSE 0)
       + CollapsedOffset(args, from + 1)

\* C11: when the mask restricts a dimension of size greater than 1 to a
\* single index b and no mask range is empty, the view View.create returns
\* has stride 0 on that dimension, and its offset is the given offset plus
\* b times the dimension's original stride, summed over such dimensions.
C11_MaskCollapseOffset ==
  (/\ viewPc \in {"created", "queried"}
   /\ viewArgs.mask # Absent
   /\ ~hasNoData(viewArgs.shape, The(viewArgs.mask))
   /\ Collapsed(viewArgs) # {})
  => /\ \A i \in Collapsed(viewArgs) : view.strides[i] = 0
     /\ view.offset = viewArgs.offset + CollapsedOffset(viewArgs, 1)

\* C12: a view created with the default row-major strides of its shape,
\* zero offset and no mask is contiguous for every shape, also one with
\* dimensions of size 1, and View.create(shape) gives the same verdict.
C12_DefaultStridesContiguous ==
  (/\ viewPc = "queried"
   /\ viewArgs.strides = Some(defaultStrides(viewArgs.shape))
   /\ viewArgs.offset = 0
   /\ viewArgs.mask = Absent)
  => /\ viewContiguous
     /\ viewContiguous
          = contiguous(create(viewArgs.shape, Absent, 0, Absent).view)

(***************************************************************************)
(* Forward-mode differentiation.  A tensor is the sequence of its          *)
(* elements: one element for a scalar, VecLen for a vector; booleans are   *)
(* 0 and 1.  Binary primitives broadcast a scalar against a vector.        *)
(***************************************************************************)
NotJvp ==
  <<aluVars, divVars, bkVars, trVars, arVars, viewVars, vmVars,
    spVars,
    rcVars,
    bdVars,
    peVars,
    tcVars,
    wmVars,
    odVars>>

\* x[i] with a scalar broadcast to every index.
Elem(x, i) == x[IF Len(x) = 1 THEN 1 ELSE i]

\* Number of elements of the broadcast of the operands.
BroadcastLen(xs) ==
  IF \E k \in DOMAIN xs : Len(xs[k]) > 1
    THEN Len(xs[CHOOSE k \in DOMAIN xs : Len(xs[k]) > 1]) ELSE 1

RECURSIVE SumFrom(_, _)
SumFrom(x, from) ==
  IF from > Len(x) THEN 0 ELSE x[from] + SumFrom(x, from + 1)

\* zerosLike(val): tf.zeros(aval.shape, aval.dtype)
zerosLike(val) == [i \in 1..Len(val) |-> 0]

\* implRules[Primitive.Add]: tf.add
implAdd(x, y) ==
  [i \in 1..BroadcastLen(<<x, y>>) |-> Elem(x, i) + Elem(y, i)]

\* implRules[Primitive.Mul]: tf.mul
implMul(x, y) ==
  [i \in 1..BroadcastLen(<<x, y>>) |-> Elem(x, i) * Elem(y, i)]

\* implRules[Primitive.Neg]: tf.neg
implNeg(x) == [i \in 1..Len(x) |-> 0 - x[i]]

\* implRules[Primitive.Less]: tf.less
implLess(x, y) ==
  [i \in 1..BroadcastLen(<<x, y>>) |->
     IF Elem(x, i) < Elem(y, i) THEN 1 ELSE 0]

\* implRules[Primitive.ReduceSum] over all axes: tf.sum
implReduceSum(x) == <<SumFrom(x, 1)>>

\* min(x, y), elementwise.
implMin(x, y) ==
  [i \in 1..BroadcastLen(<<x, y>>) |->
     IF Elem(y, i) < Elem(x, i) THEN Elem(y, i) ELSE Elem(x, i)]

\* max(x, y), elementwise.
implMax(x, y) ==
  [i \in 1..BroadcastLen(<<x, y>>) |->
     IF Elem(y, i) < Elem(x, i) THEN Elem(x, i) ELSE Elem(y, i)]

\* where(cond, x, y), elementwise.
implWhere(cond, x, y) ==
  [i \in 1..BroadcastLen(<<cond, x, y>>) |->
     IF Elem(cond, i) # 0 THEN Elem(x, i) ELSE Elem(y, i)]

\* jvpRules[Primitive.Min]
jvpMin(x, y, dx, dy) ==
  JVPTracer(implMin(x, y), implWhere(implLess(y, x), dy, dx))

\* jvpRules[Primitive.Max]
jvpMax(x, y, dx, dy) ==
  JVPTracer(implMax(x, y), implWhere(implLess(y, x), dx, dy))

\* A mul rule that drops the dx * y term.
jvpMul_DropsDx(x, y, dx, dy) ==
  JVPTracer(implMul(x, y), implMul(x, dy))

\* jvpRules[Primitive.Mul]
jvpMul(x, y, dx, dy) ==
  JVPTracer(implMul(x, y), implAdd(implMul(x, dy), implMul(dx, y)))

\* jvpRules[primitive](primals, tangents)
jvpRule(primitive, p, t) ==
  CASE primitive = "add" ->
         JVPTracer(implAdd(p[1], p[2]), implAdd(t[1], t[2]))
    [] primitive = "mul" -> jvpMul(p[1], p[2], t[1], t[2])
    [] primitive = "neg" -> JVPTracer(implNeg(p[1]), implNeg(t[1]))
    [] primitive = "min" -> jvpMin(p[1], p[2], t[1], t[2])
    [] primitive = "max" -> jvpMax(p[1], p[2], t[1], t[2])
    [] primitive = "reduce_sum" ->
         JVPTracer(implReduceSum(p[1]), implReduceSum(t[1]))
    [] primitive = "less" ->
         JVPTracer(implLess(p[1], p[2]), zerosLike(implLess(p[1], p[2])))
    [] primitive = "where" ->
         JVPTracer(implWhere(p[1], p[2], p[3]), implWhere(p[1], t[2], t[3]))

\* JVPTrace.lift(val) / pure(val): a zero tangent of the primal's shape.
lift(val) == JVPTracer(val, zerosLike(val))

\* JVPTrace.processPrimitive(primitive, tracers)
processPrimitive(primitive, tracers) ==
  jvpRule(primitive,
          [k \in DOMAIN tracers |-> tracers[k].primal],
          [k \in DOMAIN tracers |-> tracers[k].tangent])

\* implRules[primitive](args) on the evaluator.
impl(primitive, x) ==
  CASE primitive = "add" -> implAdd(x[1], x[2])
    [] primitive = "mul" -> implMul(x[1], x[2])
    [] primitive = "neg" -> implNeg(x[1])
    [] primitive = "min" -> implMin(x[1], x[2])
    [] primitive = "max" -> implMax(x[1], x[2])
    [] primitive = "reduce_sum" -> implReduceSum(x[1])
    [] primitive = "less" -> implLess(x[1], x[2])
    [] primitive = "where" -> implWhere(x[1], x[2], x[3])

\* A lift that gives a constant the tangent 1.
fullRaise_OnesTangent(val) ==
  IF val.level = 1 THEN val
  ELSE JVPTracer(val.primal, [i \in 1..Len(val.primal) |-> 1])

\* fullRaise(trace, val) for the JVP trace: a tracer of the trace is kept,
\* anything else is lifted.
fullRaise(val) == IF val.level = 1 THEN val ELSE lift(val.primal)

\* bind(prim, args): the top trace among the arguments processes the
\* primitive, with every argument raised to it.
bind(primitive, args) ==
  IF \E k \in DOMAIN args : args[k].level = 1
    THEN processPrimitive(primitive,
                          [k \in DOMAIN args |-> fullRaise(args[k])])
    ELSE ConcreteArray(impl(primitive,
                            [k \in DOMAIN args |-> args[k].primal]))

\* A node of the body of f.
Node(prim, args) == [prim |-> prim, args |-> args, arg |-> 0]

\* The k-th parameter of f.
Input(k) == [prim |-> "input", args |-> <<>>, arg |-> k]

\* A JavaScript number used in the body of f.
Lit(c) == [prim |-> "lit", args |-> <<>>, arg |-> c]

\* f(...tracersIn): the value the body e computes.
RECURSIVE call(_, _)
call(e, tracersIn) ==
  CASE e.prim = "input" -> tracersIn[e.arg]
    [] e.prim = "lit" -> ConcreteArray(<<e.arg>>)
    [] OTHER -> bind(e.prim, [k \in DOMAIN e.args |-> call(e.args[k], tracersIn)])

\* jvpFlat(f, primals, tangents)
jvpFlat(f, primals, tangents) ==
  fullRaise(call(f, [k \in DOMAIN primals |->
                       JVPTracer(primals[k], tangents[k])]))

\* The primals and tangents jvp is called with: a vector and a scalar.
PrimalsIn == {<<x, <<y>>>> : x \in [1..VecLen -> 0..MaxPrimal], y \in 0..MaxPrimal}

TangentsIn == {<<dx, <<dy>>>> : dx \in [1..VecLen -> 0..1], dy \in 0..1}

JvpLeaves == {Input(1), Input(2), Lit(2)}

RECURSIVE JvpDepth(_)
JvpDepth(e) ==
  IF e.args = <<>> THEN 0
  ELSE 1 + JvpDepth(e.args[CHOOSE k \in DOMAIN e.args :
                              \A j \in DOMAIN e.args :
                                JvpDepth(e.args[j]) <= JvpDepth(e.args[k])])

JvpOperands == {jvpF} \cup JvpLeaves

JvpCanBuild == jvpPc = "build" /\ JvpDepth(jvpF) < MaxJvpDepth

InitJvp ==
  /\ jvpF \in JvpLeaves
  /\ jvpPrimals \in PrimalsIn
  /\ jvpTangents = <<>>
  /\ jvpOut = NoJvp
  /\ jvpPc = "build"

JvpBuild(e) ==
  /\ jvpF' = e
  /\ UNCHANGED <<jvpPrimals, jvpTangents, jvpOut, jvpPc>>
  /\ UNCHANGED NotJvp

\* f = (...) => a.add(b)
JvpAdd ==
  JvpCanBuild /\ \E a \in JvpOperands, b \in JvpOperands :
    JvpBuild(Node("add", <<a, b>>))

JvpMul ==
  JvpCanBuild /\ \E a \in JvpOperands, b \in JvpOperands :
    JvpBuild(Node("mul", <<a, b>>))

JvpNeg ==
  JvpCanBuild /\ \E a \in JvpOperands : JvpBuild(Node("neg", <<a>>))

JvpMin ==
  JvpCanBuild /\ \E a \in JvpOperands, b \in JvpOperands :
    JvpBuild(Node("min", <<a, b>>))

JvpMax ==
  JvpCanBuild /\ \E a \in JvpOperands, b \in JvpOperands :
    JvpBuild(Node("max", <<a, b>>))

JvpReduceSum ==
  JvpCanBuild /\ \E a \in JvpOperands : JvpBuild(Node("reduce_sum", <<a>>))

\* f = (...) => where(less(a, b), jvpF, c)
JvpWhere ==
  JvpCanBuild /\ \E a \in JvpLeaves, b \in JvpLeaves, c \in JvpLeaves :
    JvpBuild(Node("where", <<Node("less", <<a, b>>), jvpF, c>>))

\* jvp(f, primals, tangents)
JvpCall ==
  /\ jvpPc = "build"
  /\ \E tangents \in TangentsIn :
       /\ jvpTangents' = tangents
       /\ jvpOut' = jvpFlat(jvpF, jvpPrimals, tangents)
  /\ jvpPc' = "done"
  /\ UNCHANGED <<jvpF, jvpPrimals>>
  /\ UNCHANGED NotJvp

NextJvp ==
  JvpAdd \/ JvpMul \/ JvpNeg \/ JvpMin \/ JvpMax \/ JvpReduceSum \/ JvpWhere
    \/ JvpCall

InitSpecJvp ==
  InitJvp /\ InitAluIdle /\ InitDivIdle /\ InitBackendIdle /\ InitTraceIdle
    /\ InitArrayIdle /\ InitViewIdle /\ InitVmapIdle
    /\ InitShaderIdle
    /\ InitRefcountIdle
    /\ InitBindIdle
    /\ InitSubmitIdle
    /\ InitTypecheckIdle
    /\ InitWasmIdle
    /\ InitOptaxIdle

SpecJvp == InitSpecJvp /\ [][NextJvp]_vars

\* The primal a leaf of the body stands for.
LeafPrimal(leaf) ==
  IF leaf.prim = "input" THEN jvpPrimals[leaf.arg] ELSE <<leaf.arg>>

\* The tangent a leaf enters a rule with: the tangent passed to jvp for a
\* parameter, zeros of the primal's shape for anything else.
LeafTangent(leaf) ==
  IF leaf.prim = "input" THEN jvpTangents[leaf.arg]
  ELSE [i \in 1..Len(LeafPrimal(leaf)) |-> 0]

\* f applies one primitive `prim` to leaves.
OneStep(prims) ==
  /\ jvpPc = "done"
  /\ jvpF.prim \in prims
  /\ \A k \in DOMAIN jvpF.args : jvpF.args[k] \in JvpLeaves

\* C13: for integer primals and tangents the JVP rules give exactly
\* add -> (x + y, dx + dy), mul -> (x * y, x * dy + dx * y) and
\* neg -> (-x, -dx), where an operand that is not a tracer of the jvp in
\* progress has an all-zero tangent of its primal's shape.
C13_JvpAddMulNeg ==
  OneStep({"add", "mul", "neg"}) =>
    LET x == LeafPrimal(jvpF.args[1])
        dx == LeafTangent(jvpF.args[1])
        y == LeafPrimal(jvpF.args[Len(jvpF.args)])
        dy == LeafTangent(jvpF.args[Len(jvpF.args)])
        n == IF jvpF.prim = "neg" THEN Len(x) ELSE BroadcastLen(<<x, y>>)
    IN /\ Len(jvpOut.primal) = n /\ Len(jvpOut.tangent) = n
       /\ \A i \in 1..n :
            CASE jvpF.prim = "add" ->
                   /\ jvpOut.primal[i] = Elem(x, i) + Elem(y, i)
                   /\ jvpOut.tangent[i] = Elem(dx, i) + Elem(dy, i)
              [] jvpF.prim = "mul" ->
                   /\ jvpOut.primal[i] = Elem(x, i) * Elem(y, i)
                   /\ jvpOut.tangent[i] =
                        Elem(x, i) * Elem(dy, i) + Elem(dx, i) * Elem(y, i)
              [] jvpF.prim = "neg" ->
                   /\ jvpOut.primal[i] = 0 - x[i]
                   /\ jvpOut.tangent[i] = 0 - dx[i]

\* Witness of C13: f = x => x.mul(2) on a vector, whose literal operand
\* entered the rule with a zero tangent: the tangent out is 2 * dx.
C13_Witness ==
  /\ jvpPc = "done"
  /\ jvpF = Node("mul", <<Input(1), Lit(2)>>)
  /\ jvpTangents[1] = <<1, 0>>
  /\ jvpOut.tangent = <<2, 0>>

\* C14: for min and for max, the tangent at each element is the tangent of
\* the operand the primal selects where x # y, and dy, the tangent of the
\* second operand, where x = y.
C14_MinMaxTieToSecond ==
  OneStep({"min", "max"}) =>
    LET x == LeafPrimal(jvpF.args[1])
        dx == LeafTangent(jvpF.args[1])
        y == LeafPrimal(jvpF.args[2])
        dy == LeafTangent(jvpF.args[2])
    IN \A i \in 1..BroadcastLen(<<x, y>>) :
         jvpOut.tangent[i] =
           IF Elem(x, i) = Elem(y, i) THEN Elem(dy, i)
           ELSE IF jvpOut.primal[i] = Elem(x, i) THEN Elem(dx, i)
           ELSE Elem(dy, i)

\* The scalars <<a, b>> of the linear combinations that are tried.
JvpScalars == {<<-1, 2>>, <<2, 2>>}

\* The tangents with a single nonzero element.
UnitTangents ==
  {t \in TangentsIn : SumFrom(t[1], 1) + SumFrom(t[2], 1) = 1}

\* a * v + b * w, for the tangents of every parameter.
LinComb(a, v, b, w) ==
  [k \in DOMAIN v |-> [i \in DOMAIN v[k] |-> a * v[k][i] + b * w[k][i]]]

\* C15: jvp is linear in the tangent: for every f built from add, mul,
\* neg, min, max, where and reduceSum, primal x, tangent v, unit tangent w
\* and scalars a, b, the tangent of jvp(f, x, a*v + b*w) is a * (tangent of
\* jvp(f, x, v)) + b * (tangent of jvp(f, x, w)), and the primal output
\* does not depend on the tangent.
C15_JvpLinear ==
  jvpPc = "done" =>
    \A w \in UnitTangents, ab \in JvpScalars :
      LET a == ab[1]
          b == ab[2]
          outW == jvpFlat(jvpF, jvpPrimals, w)
          outLin == jvpFlat(jvpF, jvpPrimals, LinComb(a, jvpTangents, b, w))
      IN /\ outLin.primal = jvpOut.primal
         /\ outW.primal = jvpOut.primal
         /\ outLin.tangent =
              [i \in DOMAIN jvpOut.tangent |->
                 a * jvpOut.tangent[i] + b * outW.tangent[i]]

\* Witness of C15: a body that selects, with where, the result of a min or
\* a max has been differentiated and its tangent is not zero.
C15_Witness ==
  /\ jvpPc = "done"
  /\ jvpF.prim = "where"
  /\ jvpF.args[2].prim \in {"min", "max"}
  /\ \E i \in DOMAIN jvpOut.tangent : jvpOut.tangent[i] # 0
  /\ jvpTangents[1] # jvpTangents[2]

(***************************************************************************)
(* vmap.  A value is the shape of its tensor and its dtype; a BatchTracer  *)
(* is a value and its batchDim.  Axes are numbered from 0 as in the        *)
(* source; shape[axis + 1] is the size of an axis.                         *)
(***************************************************************************)
NotVmap ==
  <<aluVars, divVars, bkVars, trVars, arVars, viewVars, jvpVars,
    spVars,
    rcVars,
    bdVars,
    peVars,
    tcVars,
    wmVars,
    odVars>>

\* The copy of s after s.splice(i, 1).
RemoveAt(s, i) ==
  IF i >= Len(s) THEN s ELSE SubSeq(s, 1, i) \o SubSeq(s, i + 2, Len(s))

\* The copy of s after s.splice(i, 0, v).
InsertAt(s, i, v) ==
  IF i >= Len(s) THEN Append(s, v)
  ELSE SubSeq(s, 1, i) \o <<v>> \o SubSeq(s, i + 1, Len(s))

\* Math.max(...s) of a nonempty sequence.
MaxOf(s) == CHOOSE m \in {s[k] : k \in DOMAIN s} : \A k \in DOMAIN s : s[k] <= m

\* ndim(x)
ndim(x) == Len(x)

\* mappedAval(batchDim, aval): the shape without its batch axis.
mappedAval(batchDim, shape) == RemoveAt(shape, batchDim)

\* generalBroadcast(a, b): the dimensions are compared from the right.
generalBroadcast(a, b) ==
  LET n == IF Len(a) > Len(b) THEN Len(a) ELSE Len(b)
      \* the k-th dimension from the right, k = 1 being the last
      x(k) == a[Len(a) + 1 - k]
      y(k) == b[Len(b) + 1 - k]
      both(k) == k <= Len(a) /\ k <= Len(b)
      dim(k) == IF ~both(k) THEN (IF k <= Len(a) THEN x(k) ELSE y(k))
                ELSE IF x(k) = y(k) THEN x(k)
                ELSE IF x(k) = 1 THEN y(k)
                ELSE x(k)
  IN IF \E k \in 1..n : both(k) /\ x(k) # y(k) /\ x(k) # 1 /\ y(k) # 1
       THEN Throws("TypeError")
       ELSE Returns([i \in 1..n |-> dim(n + 1 - i)], NotMapped, <<>>)

\* binopAbstractEval([x, y])
binopAbstractEval(x, y) ==
  IF x.dtype # y.dtype THEN Throws("TypeError")
  ELSE generalBroadcast(x.shape, y.shape)

\* compareAbstractEval([x, y]): as binopAbstractEval, the result is Bool.
compareAbstractEval(x, y) ==
  IF x.dtype # y.dtype THEN Throws("TypeError")
  ELSE generalBroadcast(x.shape, y.shape)

\* add(x, y) / mul(x, y) below the batch trace: tf.add / tf.mul broadcast
\* the operands by the NumPy rule, and the tensor library throws its own
\* Error when they are incompatible.
binop(x, y) ==
  IF generalBroadcast(x, y).err = "none" THEN generalBroadcast(x, y)
  ELSE Throws("Error")

\* broadcast(x, shape, axes): size-1 axes are inserted at `axes` and the
\* result is broadcast to `shape`.
broadcast(x, shape, axes) == shape

\* moveaxis(x, src, dst): transpose by the permutation that takes src
\* out of 0 .. n-1 and puts it back at dst.
moveaxis(x, src, dst) == InsertAt(RemoveAt(x, src), dst, x[src + 1])

\* moveBatchAxis(axisSize, src, dst, x)
moveBatchAxis(axisSize, src, dst, x) ==
  IF src = NotMapped THEN broadcast(x, InsertAt(x, dst, axisSize), <<dst>>)
  ELSE IF src = dst THEN x
  ELSE moveaxis(x, src, dst)

\* handleScalarBroadcasting(nd, x, d): size-1 axes are appended.
handleScalarBroadcasting(nd, x, d) ==
  IF d = NotMapped \/ nd = ndim(x) THEN x
  ELSE broadcast(x, x \o [i \in 1..(nd - ndim(x)) |-> 1],
                 [i \in 1..(nd - ndim(x)) |-> ndim(x) + i - 1])

\* The result of op(...args) declared batched at bdim.
batchedAt(r, bdim) == IF r.err = "none" THEN Returns(r.shape, bdim, <<>>) ELSE r

\* A broadcastBatcher whose no-op case declares its output batched.
broadcastBatcher_NoOpBatched(axisSize, args, dims) ==
  LET mapped == {k \in DOMAIN dims : dims[k] # NotMapped}
      idx == CHOOSE k \in mapped : \A j \in mapped : k <= j
      moved == [k \in DOMAIN args |->
                  IF ndim(args[k]) > 0
                    THEN moveBatchAxis(axisSize, dims[k], 0, args[k])
                    ELSE args[k]]
      nd == MaxOf([k \in DOMAIN args |-> ndim(moved[k])])
      padded == [k \in DOMAIN args |->
                   handleScalarBroadcasting(nd, moved[k], dims[k])]
  IN IF mapped = {} THEN batchedAt(binop(args[1], args[2]), 0)
     ELSE IF \A k \in DOMAIN args :
               \/ ndim(args[k]) = 0
               \/ args[k] = args[idx] /\ dims[k] = dims[idx]
       THEN batchedAt(binop(args[1], args[2]), dims[idx])
     ELSE batchedAt(binop(padded[1], padded[2]), 0)

\* broadcastBatcher(op)(axisSize, args, dims) for op = add, mul
broadcastBatcher(axisSize, args, dims) ==
  LET mapped == {k \in DOMAIN dims : dims[k] # NotMapped}
      idx == CHOOSE k \in mapped : \A j \in mapped : k <= j
      moved == [k \in DOMAIN args |->
                  IF ndim(args[k]) > 0
                    THEN moveBatchAxis(axisSize, dims[k], 0, args[k])
                    ELSE args[k]]
      nd == MaxOf([k \in DOMAIN args |-> ndim(moved[k])])
      padded == [k \in DOMAIN args |->
                   handleScalarBroadcasting(nd, moved[k], dims[k])]
  IN IF mapped = {} THEN batchedAt(binop(args[1], args[2]), NotMapped)
     ELSE IF \A k \in DOMAIN args :
               \/ ndim(args[k]) = 0
               \/ args[k] = args[idx] /\ dims[k] = dims[idx]
       THEN batchedAt(binop(args[1], args[2]), dims[idx])
     ELSE batchedAt(binop(padded[1], padded[2]), 0)

\* reduceSum(x, axis): the shape without the reduced axes.
reduceSum(x, axis) ==
  LET kept == {i \in 0..(Len(x) - 1) : \A k \in DOMAIN axis : axis[k] # i}
      RECURSIVE from(_)
      from(i) == IF i >= Len(x) THEN <<>>
                 ELSE (IF i \in kept THEN <<x[i + 1]>> ELSE <<>>) \o from(i + 1)
  IN from(0)

\* A reduceSum rule that shifts only the axes strictly after the batch axis.
vmapReduceSum_StrictShift(axisSize, x, xBdim, axis) ==
  IF xBdim = NotMapped THEN Returns(reduceSum(x, axis), NotMapped, axis)
  ELSE LET newAxis == [k \in DOMAIN axis |->
                         axis[k] + (IF xBdim < axis[k] THEN 1 ELSE 0)]
           outBdim == xBdim - Cardinality({k \in DOMAIN axis : axis[k] < xBdim})
       IN Returns(reduceSum(x, newAxis), outBdim, newAxis)

\* vmapRules[Primitive.ReduceSum](axisSize, [x], [xBdim], { axis })
vmapReduceSum(axisSize, x, xBdim, axis) ==
  IF xBdim = NotMapped THEN Returns(reduceSum(x, axis), NotMapped, axis)
  ELSE LET newAxis == [k \in DOMAIN axis |->
                         axis[k] + (IF xBdim <= axis[k] THEN 1 ELSE 0)]
           outBdim == xBdim - Cardinality({k \in DOMAIN axis : axis[k] < xBdim})
       IN Returns(reduceSum(x, newAxis), outBdim, newAxis)

\* BatchTrace.processPrimitive(primitive, tracers, params)
batchProcessPrimitive(primitive, axisSize, valsIn, bdimsIn, axis) ==
  IF primitive = "reduce_sum"
    THEN vmapReduceSum(axisSize, valsIn[1], bdimsIn[1], axis)
    ELSE broadcastBatcher(axisSize, valsIn, bdimsIn)

\* vmapFlat(f, inAxes, args) for f = (x, y) => add(x, y) or mul(x, y):
\* the sizes of the mapped axes are compared, f is traced and the batch
\* axis of its output is moved to the front.
vmapFlat(primitive, inAxes, args) ==
  LET mapped == {k \in DOMAIN args : inAxes[k] # NotMapped}
      sizeOf(k) == args[k][inAxes[k] + 1]
      axisSize == sizeOf(CHOOSE k \in mapped : TRUE)
      out == batchProcessPrimitive(primitive, axisSize, args, inAxes, <<>>)
  IN IF \E j \in mapped, k \in mapped : sizeOf(j) # sizeOf(k)
       THEN Throws("TypeError")
     ELSE IF mapped = {} THEN Throws("TypeError")
     ELSE IF out.err # "none" THEN out
     ELSE Returns(moveBatchAxis(axisSize, out.bdim, 0, out.shape), 0, <<>>)

\* The per-example shapes.
LogicalShapes ==
  UNION {[1..n -> 1..MaxVmapDim] : n \in 0..MaxVmapRank}

\* The sizes of the mapped axis.
AxisSizes == 2..MaxAxisSize

\* The BatchTracers of a trace whose axis size is axisSize: a per-example
\* shape with the batch axis inserted at batchDim, or a lifted value.
BatchTracers(axisSize) ==
  {[val |-> InsertAt(p[1], p[2], axisSize), batchDim |-> p[2]] :
     p \in {q \in LogicalShapes \X (0..MaxVmapRank) : q[2] <= Len(q[1])}}
  \cup {[val |-> l, batchDim |-> NotMapped] : l \in LogicalShapes}

\* The axis arguments of reduceSum on a value of the given rank: distinct
\* axes in any order.
AxesOf(rank) ==
  {a \in UNION {[1..n -> 0..(rank - 1)] : n \in 0..rank} :
     \A j \in DOMAIN a, k \in DOMAIN a : a[j] = a[k] => j = k}

DTypes == {"float32", "int32"}

\* The per-example shape of operand k of the call.
Logical(k) ==
  IF vmIn.dims[k] = NotMapped THEN vmIn.args[k]
  ELSE mappedAval(vmIn.dims[k], vmIn.args[k])

\* The operands of the call that are batched.
MappedArgs == {k \in DOMAIN vmIn.dims : vmIn.dims[k] # NotMapped}

\* The mapped axes of the call have one size.
SizesAgree ==
  \A j \in MappedArgs, k \in MappedArgs :
    vmIn.args[j][vmIn.dims[j] + 1] = vmIn.args[k][vmIn.dims[k] + 1]

VmapDone(in, out) ==
  /\ vmIn' = in
  /\ vmOut' = out
  /\ vmPc' = "done"
  /\ UNCHANGED NotVmap

\* A binary primitive on two tracers of a batch trace.
VmapBinary(prim, axisSize, x, y) ==
  VmapDone([fn |-> "processPrimitive", prim |-> prim,
            args |-> <<x.val, y.val>>,
            dims |-> <<x.batchDim, y.batchDim>>,
            axis |-> <<>>, axisSize |-> axisSize, dtypes |-> <<>>],
           batchProcessPrimitive(prim, axisSize, <<x.val, y.val>>,
                                 <<x.batchDim, y.batchDim>>, <<>>))

\* add(x, y)
VmapAdd ==
  /\ vmPc = "idle"
  /\ \E axisSize \in AxisSizes :
       \E x \in BatchTracers(axisSize), y \in BatchTracers(axisSize) :
         VmapBinary("add", axisSize, x, y)

\* mul(x, y)
VmapMul ==
  /\ vmPc = "idle"
  /\ \E axisSize \in AxisSizes :
       \E x \in BatchTracers(axisSize), y \in BatchTracers(axisSize) :
         VmapBinary("mul", axisSize, x, y)

\* reduceSum(x, axis) on a tracer of a batch trace.
VmapReduceSum ==
  vmPc = "idle" /\ \E axisSize \in AxisSizes :
    \E x \in BatchTracers(axisSize) :
      \E axis \in AxesOf(IF x.batchDim = NotMapped THEN Len(x.val)
                         ELSE Len(x.val) - 1) :
        VmapDone([fn |-> "processPrimitive", prim |-> "reduce_sum",
                  args |-> <<x.val>>, dims |-> <<x.batchDim>>,
                  axis |-> axis, axisSize |-> axisSize, dtypes |-> <<>>],
                 batchProcessPrimitive("reduce_sum", axisSize, <<x.val>>,
                                       <<x.batchDim>>, axis))

\* vmap((x, y) => add(x, y), inAxes)(x, y), and the same for mul.
VmapFlat ==
  vmPc = "idle" /\ \E prim \in {"add", "mul"}, sx \in AxisSizes, sy \in AxisSizes :
    \E x \in BatchTracers(sx), y \in BatchTracers(sy) :
      VmapDone([fn |-> "vmapFlat", prim |-> prim,
                args |-> <<x.val, y.val>>,
                dims |-> <<x.batchDim, y.batchDim>>,
                axis |-> <<>>,
                axisSize |-> IF x.batchDim # NotMapped THEN sx ELSE sy,
                dtypes |-> <<>>],
               vmapFlat(prim, <<x.batchDim, y.batchDim>>, <<x.val, y.val>>))

\* abstractEvalRules[prim]([x, y]) while a jaxpr is traced.
AbstractEval ==
  vmPc = "idle" /\ \E prim \in {"add", "mul", "greater", "less"} :
    \E x \in LogicalShapes, y \in LogicalShapes, dx \in DTypes, dy \in DTypes :
      VmapDone([fn |-> "abstractEval", prim |-> prim, args |-> <<x, y>>,
                dims |-> <<NotMapped, NotMapped>>, axis |-> <<>>,
                axisSize |-> 0, dtypes |-> <<dx, dy>>],
               IF prim \in {"add", "mul"}
                 THEN binopAbstractEval([shape |-> x, dtype |-> dx],
                                        [shape |-> y, dtype |-> dy])
                 ELSE compareAbstractEval([shape |-> x, dtype |-> dx],
                                          [shape |-> y, dtype |-> dy]))

NextVmap == VmapAdd \/ VmapMul \/ VmapReduceSum \/ VmapFlat \/ AbstractEval

InitSpecVmap ==
  InitVmapIdle /\ InitAluIdle /\ InitDivIdle /\ InitBackendIdle
    /\ InitTraceIdle /\ InitArrayIdle /\ InitViewIdle /\ InitJvpIdle
    /\ InitShaderIdle
    /\ InitRefcountIdle
    /\ InitBindIdle
    /\ InitSubmitIdle
    /\ InitTypecheckIdle
    /\ InitWasmIdle
    /\ InitOptaxIdle

SpecVmap == InitSpecVmap /\ [][NextVmap]_vars

\* The rule of the primitive `prims` has run on tracers of a batch trace.
RuleRan(prims) ==
  vmPc = "done" /\ vmIn.fn = "processPrimitive" /\ vmIn.prim \in prims

\* C16: for reduceSum under vmap with the input batched at value axis b and
\* logical reduction axes A, the rule reduces the value axes
\* {a + 1 if a >= b else a : a in A}, never the batch axis, and reports the
\* output batch axis b - |{a in A : a < b}|, so that the output without
\* its batch axis has the logical input shape with the axes A removed.
C16_ReduceSumBatched ==
  (RuleRan({"reduce_sum"}) /\ vmIn.dims[1] # NotMapped) =>
    LET b == vmIn.dims[1]
        A == {vmIn.axis[k] : k \in DOMAIN vmIn.axis}
        reduced == {vmOut.axis[k] : k \in DOMAIN vmOut.axis}
    IN /\ vmOut.err = "none"
       /\ reduced = {IF a >= b THEN a + 1 ELSE a : a \in A}
       /\ b \notin reduced
       /\ vmOut.bdim = b - Cardinality({a \in A : a < b})
       /\ vmOut.bdim < Len(vmOut.shape)
       /\ vmOut.shape[vmOut.bdim + 1] = vmIn.axisSize
       /\ mappedAval(vmOut.bdim, vmOut.shape) = reduceSum(Logical(1), vmIn.axis)

\* Witness of C16: a value of per-example shape [3, 1] batched at axis 1 is
\* summed over both logical axes, one before and one after the batch axis,
\* and only the batch axis is left, at position 0.
C16_Witness ==
  /\ RuleRan({"reduce_sum"})
  /\ vmIn.args = <<<<3, 2, 1>>>>
  /\ vmIn.dims = <<1>>
  /\ vmIn.axis = <<0, 1>>
  /\ vmOut.axis = <<0, 2>>
  /\ vmOut.shape = <<2>>
  /\ vmOut.bdim = 0

\* Every operand is a scalar value or has the shape and the batch axis of
\* the first batched operand.
OperandsAgree ==
  LET idx == CHOOSE k \in MappedArgs : \A j \in MappedArgs : k <= j
  IN \A k \in DOMAIN vmIn.args :
       \/ vmIn.args[k] = <<>>
       \/ vmIn.args[k] = vmIn.args[idx] /\ vmIn.dims[k] = vmIn.dims[idx]

\* C17 as stated: for add and mul under vmap, the output is unbatched if no
\* operand is batched, and declared batched at axis 0 if any operand is
\* batched, whatever the operands' batch axes.
C17_BinaryBatchedAtZero ==
  (RuleRan({"add", "mul"}) /\ vmOut.err = "none") =>
    /\ MappedArgs = {} => vmOut.bdim = NotMapped
    /\ MappedArgs # {} => vmOut.bdim = 0

\* C17, amended: for add and mul under vmap, the output is unbatched if no
\* operand is batched; if some operand is batched and every operand is a
\* scalar value or has the first batched operand's shape and batch axis,
\* the output is declared batched at that operand's batch axis; in every
\* other case it is declared batched at axis 0.
C17_BinaryBatchAxis ==
  (RuleRan({"add", "mul"}) /\ vmOut.err = "none") =>
    /\ MappedArgs = {} => vmOut.bdim = NotMapped
    /\ (MappedArgs # {} /\ OperandsAgree) =>
         vmOut.bdim = vmIn.dims[CHOOSE k \in MappedArgs :
                                  \A j \in MappedArgs : k <= j]
    /\ (MappedArgs # {} /\ ~OperandsAgree) => vmOut.bdim = 0

\* Witness of C17: two operands of shape [3, 2] batched at axis 1 were
\* added and the sum is declared batched at axis 1.
C17_Witness ==
  /\ RuleRan({"add"})
  /\ vmIn.args = <<<<3, 2>>, <<3, 2>>>>
  /\ vmIn.dims = <<1, 1>>
  /\ vmOut.err = "none"
  /\ vmOut.shape = <<3, 2>>
  /\ vmOut.bdim = 1

\* C18: for add or mul under vmap on two operands whose per-example shapes
\* are NumPy-broadcast compatible, whatever their ranks and whichever of
\* them is batched, the batching rule succeeds, the per-example shape of
\* its output is the broadcast of the two per-example shapes, and the batch
\* axis, of length axisSize, is at the reported position.
C18_VmapAgreesWithLoop ==
  (/\ vmPc = "done"
   /\ vmIn.fn \in {"processPrimitive", "vmapFlat"}
   /\ vmIn.prim \in {"add", "mul"}
   /\ MappedArgs # {}
   /\ SizesAgree
   /\ generalBroadcast(Logical(1), Logical(2)).err = "none")
  => /\ vmOut.err = "none"
     /\ vmOut.bdim # NotMapped
     /\ vmOut.bdim < Len(vmOut.shape)
     /\ vmOut.shape[vmOut.bdim + 1] = vmIn.axisSize
     /\ mappedAval(vmOut.bdim, vmOut.shape)
          = generalBroadcast(Logical(1), Logical(2)).shape

\* C19: a binary primitive on operands whose shapes cannot be broadcast,
\* and vmap on mapped arguments with different batch-axis sizes, fail with
\* ShapeError; a binary primitive on operands of different dtypes fails
\* with DtypeError.
C19_ShapeAndDtypeErrors ==
  vmPc = "done" =>
    /\ (/\ vmIn.fn = "abstractEval"
        /\ vmIn.dtypes[1] = vmIn.dtypes[2]
        /\ generalBroadcast(vmIn.args[1], vmIn.args[2]).err # "none")
       => vmOut.err = "ShapeError"
    /\ (vmIn.fn = "vmapFlat" /\ ~SizesAgree) => vmOut.err = "ShapeError"
    /\ (vmIn.fn = "abstractEval" /\ vmIn.dtypes[1] # vmIn.dtypes[2])
       => vmOut.err = "DtypeError"

(***************************************************************************)
(* ShaderPipelineCache.  A pipeline is the number of the object the device *)
(* created; a promise is pending, resolved with a pipeline, or rejected.   *)
(* A get call runs up to its first await in one step, and resumes in a     *)
(* later step once the promise it awaits has settled.                      *)
(***************************************************************************)
NotShader ==
  <<aluVars, divVars, bkVars, trVars, arVars, viewVars, jvpVars, vmVars,
    rcVars,
    bdVars,
    peVars,
    tcVars,
    wmVars,
    odVars>>

\* A get / getSync call and where it stands.
ShaderCall(fn, code, pc, result) ==
  [fn |-> fn, code |-> code, pc |-> pc, result |-> result]

\* An inProgress lookup that never finds a promise.
existingPromise_Never(code) == NoPromise

\* this.inProgress.get(code)
existingPromise(code) == spInProgress[code]

\* get(code) up to its first await: a cached pipeline is returned, a
\* promise in inProgress is awaited, otherwise a compilation is started
\* and its promise is put in inProgress and awaited.
ShaderGet ==
  /\ Len(spCalls) < MaxShaderCalls
  /\ \E code \in ShaderCodes :
       IF spCache[code] # 0
         THEN /\ spCalls' = Append(spCalls,
                              ShaderCall("get", code, "returned", spCache[code]))
              /\ UNCHANGED <<spInProgress, spAsyncStarted, spNext>>
       ELSE IF existingPromise(code) # NoPromise
         THEN /\ spCalls' = Append(spCalls,
                              ShaderCall("get", code, "awaitExisting", 0))
              /\ UNCHANGED <<spInProgress, spAsyncStarted, spNext>>
       ELSE /\ spInProgress' =
                 [spInProgress EXCEPT
                    ![code] = [state |-> "pending", pipeline |-> spNext]]
            /\ spAsyncStarted' = [spAsyncStarted EXCEPT ![code] = @ + 1]
            /\ spNext' = spNext + 1
            /\ spCalls' = Append(spCalls, ShaderCall("get", code, "awaitOwn", 0))
  /\ UNCHANGED <<spCache, spSyncCompiled>>
  /\ UNCHANGED NotShader

\* getSync(code): a cached pipeline is returned, otherwise the pipeline is
\* compiled synchronously and cached.
ShaderGetSync ==
  /\ Len(spCalls) < MaxShaderCalls
  /\ \E code \in ShaderCodes :
       IF spCache[code] # 0
         THEN /\ spCalls' = Append(spCalls,
                              ShaderCall("getSync", code, "returned",
                                         spCache[code]))
              /\ UNCHANGED <<spCache, spSyncCompiled, spNext>>
       ELSE /\ spCache' = [spCache EXCEPT ![code] = spNext]
            /\ spSyncCompiled' = [spSyncCompiled EXCEPT ![code] = @ + 1]
            /\ spNext' = spNext + 1
            /\ spCalls' = Append(spCalls,
                            ShaderCall("getSync", code, "returned", spNext))
  /\ UNCHANGED <<spInProgress, spAsyncStarted>>
  /\ UNCHANGED NotShader

\* The promise of a compilation settles.
ShaderSettle(code, state) ==
  /\ spInProgress' = [spInProgress EXCEPT ![code].state = state]
  /\ UNCHANGED <<spCache, spCalls, spAsyncStarted, spSyncCompiled, spNext>>
  /\ UNCHANGED NotShader

\* createComputePipelineAsync and popErrorScope resolved: return pipeline.
ShaderResolve ==
  /\ \E code \in ShaderCodes :
       /\ spInProgress[code].state = "pending"
       /\ ShaderSettle(code, "resolved")

\* createComputePipelineAsync rejected: throw new Error(emsg).
ShaderReject ==
  /\ \E code \in ShaderCodes :
       /\ spInProgress[code].state = "pending"
       /\ ShaderSettle(code, "rejected")

\* A get call resumes after its await: the caller that started the
\* compilation stores the pipeline in the cache; a rejection is rethrown.
ShaderResume ==
  /\ \E i \in DOMAIN spCalls :
       LET caller == spCalls[i]
           promise == spInProgress[caller.code]
       IN /\ caller.pc \in {"awaitExisting", "awaitOwn"}
          /\ promise.state \in {"resolved", "rejected"}
          /\ IF promise.state = "rejected"
               THEN /\ spCalls' = [spCalls EXCEPT ![i].pc = "thrown"]
                    /\ UNCHANGED spCache
               ELSE /\ spCalls' = [spCalls EXCEPT ![i].pc = "returned",
                                                  ![i].result = promise.pipeline]
                    /\ spCache' = IF caller.pc = "awaitOwn"
                                    THEN [spCache EXCEPT
                                            ![caller.code] = promise.pipeline]
                                    ELSE spCache
  /\ UNCHANGED <<spInProgress, spAsyncStarted, spSyncCompiled, spNext>>
  /\ UNCHANGED NotShader

NextShader ==
  ShaderGet \/ ShaderGetSync \/ ShaderResolve \/ ShaderReject \/ ShaderResume

InitSpecShader ==
  InitShaderIdle /\ InitAluIdle /\ InitDivIdle /\ InitBackendIdle
    /\ InitTraceIdle /\ InitArrayIdle /\ InitViewIdle /\ InitJvpIdle
    /\ InitVmapIdle
    /\ InitRefcountIdle
    /\ InitBindIdle
    /\ InitSubmitIdle
    /\ InitTypecheckIdle
    /\ InitWasmIdle
    /\ InitOptaxIdle

SpecShader == InitSpecShader /\ [][NextShader]_vars

\* The pipelines the get calls for a source have returned.
GetResults(code) ==
  {spCalls[i].result :
     i \in {j \in DOMAIN spCalls : /\ spCalls[j].fn = "get"
                                   /\ spCalls[j].code = code
                                   /\ spCalls[j].pc = "returned"}}

\* A call made for `code` in this step does not compile, and what it
\* returns is `pipeline`.
NoRecompile(code, pipeline) ==
  (Len(spCalls') > Len(spCalls) /\ spCalls'[Len(spCalls')].code = code) =>
    /\ spCalls'[Len(spCalls')].pc = "returned" =>
         spCalls'[Len(spCalls')].result = pipeline
    /\ spAsyncStarted'[code] = spAsyncStarted[code]
    /\ spSyncCompiled'[code] = spSyncCompiled[code]

\* A call made for `code` in this step returns `pipeline` at once and does
\* not compile.
ServedFromCache(code, pipeline) ==
  /\ NoRecompile(code, pipeline)
  /\ (Len(spCalls') > Len(spCalls) /\ spCalls'[Len(spCalls')].code = code) =>
       spCalls'[Len(spCalls')].pc = "returned"

\* C21 as stated: at most one asynchronous compilation is started per
\* shader source, all get callers for a source obtain the same pipeline
\* when only get is called for it, and once a compilation has succeeded
\* (its promise has resolved, or getSync has compiled) later get and
\* getSync calls return that pipeline without compiling again.
C21_CompiledOnce ==
  [][\A code \in ShaderCodes :
       /\ spAsyncStarted'[code] <= 1
       /\ spSyncCompiled'[code] = 0 => Cardinality(GetResults(code)') <= 1
       /\ spCache[code] # 0 => ServedFromCache(code, spCache[code])
       /\ (spCache[code] = 0 /\ spInProgress[code].state = "resolved") =>
            NoRecompile(code, spInProgress[code].pipeline)]_vars

\* C21, amended: at most one asynchronous compilation is started per shader
\* source, all get callers for a source obtain the same pipeline when only
\* get is called for it, and once a pipeline for the source is in the
\* cache later get and getSync calls return the cached pipeline without
\* compiling again.
C21_CachedOnce ==
  [][\A code \in ShaderCodes :
       /\ spAsyncStarted'[code] <= 1
       /\ spSyncCompiled'[code] = 0 => Cardinality(GetResults(code)') <= 1
       /\ spCache[code] # 0 => ServedFromCache(code, spCache[code])]_vars

\* Witness of C21: two get calls for one source were made while its
\* compilation was pending and a third after it was cached; one
\* compilation was started and the three calls returned its pipeline.
C21_Witness ==
  \E code \in ShaderCodes :
    /\ Len(spCalls) >= 3
    /\ \A i \in 1..3 : spCalls[i] = ShaderCall("get", code, "returned", 1)
    /\ spCache[code] = 1
    /\ spAsyncStarted[code] = 1
    /\ spNext = 2

\* C28: inProgress holds only compilations that have not settled: once the
\* promise for a shader source has resolved or rejected the source is no
\* longer in inProgress, so a get(code) issued after a failed compilation
\* starts a new compilation instead of returning the old failure.
C28_InProgressOnlyPending ==
  [][\A code \in ShaderCodes :
       /\ spInProgress[code] # NoPromise => spInProgress[code].state = "pending"
       /\ (/\ spInProgress[code].state = "rejected"
           /\ Len(spCalls') > Len(spCalls)
           /\ spCalls'[Len(spCalls')].fn = "get"
           /\ spCalls'[Len(spCalls')].code = code)
          => spAsyncStarted'[code] = spAsyncStarted[code] + 1]_vars

(***************************************************************************)
(* Reference counts in the JVP rules.  A rule is the sequence of the       *)
(* operations it performs on its inputs and intermediate values, in        *)
(* JavaScript evaluation order: `.ref` adds a reference, a primitive call  *)
(* consumes one reference of every operand and gives a new value with one  *)
(* reference, dispose releases one.                                        *)
(***************************************************************************)
NotRefcount ==
  <<aluVars, divVars, bkVars, trVars, arVars, viewVars, jvpVars, vmVars,
    spVars,
    bdVars,
    peVars,
    tcVars,
    wmVars,
    odVars>>

\* h.ref
RefOp(h) == [op |-> "ref", args |-> <<h>>, res |-> "none"]

\* res = prim(...args)
CallOp(args, res) == [op |-> "call", args |-> args, res |-> res]

\* h.dispose()
DisposeOp(h) == [op |-> "dispose", args |-> <<h>>, res |-> "none"]

\* res = zerosLike(h): reads the shape and dtype of h only.
ZerosLikeOp(h, res) == [op |-> "zerosLike", args |-> <<h>>, res |-> res]

\* return [[primal], [tangent]]
ReturnOp(outs) == [op |-> "return", args |-> outs, res |-> "none"]

\* The rules of the form [[prim(x)], [prim(dx)]].
UnaryLinear ==
  {"neg", "reduce_sum", "transpose", "broadcast", "reshape", "flip"}

\* jvpRules[primitive], as the operations it performs.
jvpRuleOps(primitive) ==
  CASE primitive = "add" ->
         <<CallOp(<<"x", "y">>, "p"), CallOp(<<"dx", "dy">>, "t"),
           ReturnOp(<<"p", "t">>)>>
    [] primitive = "mul" ->
         <<RefOp("x"), RefOp("y"), CallOp(<<"x", "y">>, "p"),
           CallOp(<<"x", "dy">>, "t1"), CallOp(<<"dx", "y">>, "t2"),
           CallOp(<<"t1", "t2">>, "t"), ReturnOp(<<"p", "t">>)>>
    [] primitive = "idiv" ->
         <<DisposeOp("dx"), DisposeOp("dy"), CallOp(<<"x", "y">>, "p"),
           ZerosLikeOp("p", "t"), ReturnOp(<<"p", "t">>)>>
    [] primitive \in UnaryLinear ->
         <<CallOp(<<"x">>, "p"), CallOp(<<"dx">>, "t"),
           ReturnOp(<<"p", "t">>)>>
    [] primitive = "reciprocal" ->
         <<RefOp("x"), CallOp(<<"x">>, "p"), RefOp("p"), RefOp("p"),
           CallOp(<<"p", "p">>, "t1"), CallOp(<<"t1">>, "t2"),
           CallOp(<<"t2", "dx">>, "t"), ReturnOp(<<"p", "t">>)>>
    [] primitive \in {"sin", "cos"} ->
         <<RefOp("x"), CallOp(<<"x">>, "p"), CallOp(<<"x">>, "t1"),
           CallOp(<<"t1", "dx">>, "t"), ReturnOp(<<"p", "t">>)>>
    [] primitive = "min" ->
         <<RefOp("x"), RefOp("y"), CallOp(<<"x", "y">>, "p"),
           CallOp(<<"y", "x">>, "t1"), CallOp(<<"t1", "dy", "dx">>, "t"),
           ReturnOp(<<"p", "t">>)>>
    [] primitive = "max" ->
         <<RefOp("x"), RefOp("y"), CallOp(<<"x", "y">>, "p"),
           CallOp(<<"y", "x">>, "t1"), CallOp(<<"t1", "dx", "dy">>, "t"),
           ReturnOp(<<"p", "t">>)>>
    [] primitive = "compare" ->
         <<DisposeOp("dx"), DisposeOp("dy"), CallOp(<<"x", "y">>, "p"),
           ZerosLikeOp("p", "t"), ReturnOp(<<"p", "t">>)>>
    [] primitive = "where" ->
         <<DisposeOp("dcond"), RefOp("cond"), CallOp(<<"cond", "x", "y">>, "p"),
           CallOp(<<"cond", "dx", "dy">>, "t"), ReturnOp(<<"p", "t">>)>>
    [] primitive = "jit_call" ->
         <<CallOp(<<"x", "dx">>, "p"), ReturnOp(<<"p", "p">>)>>

\* The primitives that have a JVP rule.
RulePrimitives ==
  {"add", "mul", "idiv", "reciprocal", "sin", "cos", "min", "max", "compare",
   "where", "jit_call"} \cup UnaryLinear

\* The primals and tangents the rule of a primitive is handed.
RuleInputs(primitive) ==
  CASE primitive \in {"add", "mul", "idiv", "min", "max", "compare"} ->
         {"x", "y", "dx", "dy"}
    [] primitive = "where" -> {"cond", "x", "y", "dcond", "dx", "dy"}
    [] OTHER -> {"x", "dx"}

\* The values a rule creates.
RuleTemps == {"p", "t", "t1", "t2"}

\* Number of times h occurs among the operands of a call.
Occurrences(args, h) == Cardinality({k \in DOMAIN args : args[k] = h})

\* The operation the rule performs next.
RcOp == jvpRuleOps(rcPrim)[rcNext]

\* No operand of the next operation has been released.
RcOperandsLive ==
  \A k \in DOMAIN RcOp.args :
    rcCount[RcOp.args[k]] >= Occurrences(RcOp.args, RcOp.args[k])

RcAdvance(counts) ==
  /\ rcCount' = counts
  /\ rcNext' = rcNext + 1
  /\ UNCHANGED <<rcPrim, rcInit, rcPc>>
  /\ UNCHANGED NotRefcount

\* A use of a value that has no reference left: ReferenceError.
RcThrow ==
  /\ rcPc' = "thrown"
  /\ UNCHANGED <<rcPrim, rcInit, rcCount, rcNext>>
  /\ UNCHANGED NotRefcount

\* JVPTrace.processPrimitive hands the rule its primals and tangents.
RcEnter ==
  /\ rcPc = "idle"
  /\ \E primitive \in RulePrimitives :
       \E held \in [RuleInputs(primitive) -> 1..MaxHeld] :
         /\ rcPrim' = primitive
         /\ rcInit' = held
         /\ rcCount' = [h \in RuleInputs(primitive) \cup RuleTemps |->
                          IF h \in RuleInputs(primitive) THEN held[h] ELSE 0]
  /\ rcNext' = 1
  /\ rcPc' = "running"
  /\ UNCHANGED NotRefcount

\* h.ref
RcRef ==
  /\ rcPc = "running" /\ RcOp.op = "ref"
  /\ IF RcOperandsLive
       THEN RcAdvance([rcCount EXCEPT ![RcOp.args[1]] = @ + 1])
       ELSE RcThrow

\* A primitive call: one reference of every operand is consumed.
RcCall ==
  /\ rcPc = "running" /\ RcOp.op = "call"
  /\ IF RcOperandsLive
       THEN RcAdvance([h \in DOMAIN rcCount |->
                         IF h = RcOp.res THEN 1
                         ELSE rcCount[h] - Occurrences(RcOp.args, h)])
       ELSE RcThrow

\* h.dispose()
RcDispose ==
  /\ rcPc = "running" /\ RcOp.op = "dispose"
  /\ IF RcOperandsLive
       THEN RcAdvance([rcCount EXCEPT ![RcOp.args[1]] = @ - 1])
       ELSE RcThrow

\* zerosLike(h)
RcZerosLike ==
  /\ rcPc = "running" /\ RcOp.op = "zerosLike"
  /\ IF RcOperandsLive
       THEN RcAdvance([rcCount EXCEPT ![RcOp.res] = 1])
       ELSE RcThrow

\* The rule returns its outputs.
RcReturn ==
  /\ rcPc = "running" /\ RcOp.op = "return"
  /\ rcPc' = "returned"
  /\ UNCHANGED <<rcPrim, rcInit, rcCount, rcNext>>
  /\ UNCHANGED NotRefcount

NextRefcount ==
  RcEnter \/ RcRef \/ RcCall \/ RcDispose \/ RcZerosLike \/ RcReturn

InitSpecRefcount ==
  InitRefcountIdle /\ InitAluIdle /\ InitDivIdle /\ InitBackendIdle
    /\ InitTraceIdle /\ InitArrayIdle /\ InitViewIdle /\ InitJvpIdle
    /\ InitVmapIdle /\ InitShaderIdle
    /\ InitBindIdle
    /\ InitSubmitIdle
    /\ InitTypecheckIdle
    /\ InitWasmIdle
    /\ InitOptaxIdle

SpecRefcount == InitSpecRefcount /\ [][NextRefcount]_vars

\* C22: every JVP rule consumes each primal and tangent it is handed
\* exactly once net of the `.ref`s it takes: when the rule returns no input
\* retains a reference the rule owned, and none is released twice (no use
\* of an input that has no reference left).
C22_RulesConsumeOnce ==
  /\ rcPc # "thrown"
  /\ rcPc = "returned" =>
       \A h \in RuleInputs(rcPrim) : rcCount[h] = rcInit[h] - 1

(***************************************************************************)
(* bind: the interpreter a primitive call goes to, and the raising of its  *)
(* operands.  A MainTrace is identified by its level and by which of the   *)
(* newMain calls made at that level created it; tracers keep their main    *)
(* after the call that pushed it has ended.                                *)
(***************************************************************************)
NotBind ==
  <<aluVars, divVars, bkVars, trVars, arVars, viewVars, jvpVars, vmVars,
    spVars, rcVars,
    peVars,
    tcVars,
    wmVars,
    odVars>>

\* traceStack[0], pushed when the module loads; baseArrayTrace wraps it.
EvalMain == [level |-> 0, serial |-> 0]

\* The MainTrace objects tracers can refer to.
Mains ==
  {EvalMain} \cup
    {[level |-> l, serial |-> s] : l \in 1..MaxLevel, s \in 0..MaxSerial}

\* let dynamicTrace: MainTrace | null = null; nothing assigns it.
dynamicTrace == NoMain

\* A Tracer of the interpreter `main`.
TracerOf(main) == [kind |-> "tracer", main |-> main]

\* TracerValue: a Tracer, or a number or boolean.
TracerValues ==
  {TracerOf(m) : m \in Mains} \cup {[kind |-> "value", main |-> NoMain]}

\* The loop of findTopTrace over the operands.
RECURSIVE topMainOf(_, _)
topMainOf(xs, topMain) ==
  IF xs = <<>> THEN topMain
  ELSE LET x == Head(xs)
       IN topMainOf(Tail(xs),
            IF x.kind = "tracer" /\ x.main.level > topMain.level
              THEN x.main ELSE topMain)

\* A findTopTrace that takes the interpreter of the first tracer operand.
findTopTrace_FirstTracer(xs) ==
  LET tracers == SelectSeq(xs, LAMBDA x : x.kind = "tracer")
  IN IF tracers = <<>> THEN EvalMain ELSE tracers[1].main

\* findTopTrace(xs): the main of the trace it constructs.
findTopTrace(xs) ==
  LET topMain == topMainOf(xs, EvalMain)
  IN IF dynamicTrace # NoMain /\ dynamicTrace.level > topMain.level
       THEN dynamicTrace ELSE topMain

\* What fullRaise did with one operand.
Raised(tracer, how, err) == [tracer |-> tracer, how |-> how, err |-> err]

\* fullRaise(trace, val), trace being given by its main.
fullRaiseTo(main, val) ==
  IF val.kind # "tracer" THEN Raised(TracerOf(main), "pure", "none")
  ELSE IF val.main = main THEN Raised(val, "same", "none")
  ELSE IF val.main.level < main.level
    THEN Raised(TracerOf(main), "lift", "none")
  ELSE IF val.main.level > main.level
    THEN Raised(val, "throw", "Can't lift Tracer level")
  ELSE Raised(val, "throw", "Different traces at same level")

\* bind(prim, args, params): bdTracers is what processPrimitive is called
\* with, or <<>> when fullRaise threw and it is not called.
Bind ==
  \E n \in 1..MaxBindArgs : \E args \in [1..n -> TracerValues] :
    LET topMain == findTopTrace(args)
        tracers == [i \in 1..n |-> fullRaiseTo(topMain, args[i])]
        failed  == {i \in 1..n : tracers[i].err # "none"}
        first   == CHOOSE i \in failed : \A j \in failed : i <= j
    IN /\ bdArgs' = args
       /\ bdTop' = topMain
       /\ bdErr' = IF failed = {} THEN "none" ELSE tracers[first].err
       /\ bdTracers' = IF failed = {} THEN tracers ELSE <<>>
       /\ UNCHANGED NotBind

NextBind == Bind

InitSpecBind ==
  InitBindIdle /\ InitAluIdle /\ InitDivIdle /\ InitBackendIdle
    /\ InitTraceIdle /\ InitArrayIdle /\ InitViewIdle /\ InitJvpIdle
    /\ InitVmapIdle /\ InitShaderIdle /\ InitRefcountIdle
    /\ InitSubmitIdle
    /\ InitTypecheckIdle
    /\ InitWasmIdle
    /\ InitOptaxIdle

SpecBind == InitSpecBind /\ [][NextBind]_vars

\* The tracer operands of the last bind call.
TracerArgs == {i \in DOMAIN bdArgs : bdArgs[i].kind = "tracer"}

\* C23: a primitive call goes to the interpreter of highest level among
\* its tracer operands and the dynamic trace (the evaluator when there is
\* none); every operand handed to processPrimitive belongs to that
\* interpreter, a tracer of it being passed unchanged, a tracer of a lower
\* level lifted and a non-tracer value wrapped by pure; and fullRaise never
\* throws "Can't lift Tracer level" when called from bind.
C23_BindRaisesToTop ==
  bdArgs # <<>> =>
    /\ \A i \in TracerArgs : bdArgs[i].main.level <= bdTop.level
    /\ \/ bdTop = EvalMain
       \/ bdTop = dynamicTrace
       \/ \E i \in TracerArgs : bdArgs[i].main = bdTop
    /\ bdErr # "Can't lift Tracer level"
    /\ bdErr = "none" =>
         /\ Len(bdTracers) = Len(bdArgs)
         /\ \A i \in DOMAIN bdArgs :
              /\ bdTracers[i].tracer = TracerOf(bdTop)
              /\ bdTracers[i].how =
                   IF bdArgs[i].kind # "tracer" THEN "pure"
                   ELSE IF bdArgs[i].main = bdTop THEN "same" ELSE "lift"
              /\ bdTracers[i].how = "same" => bdTracers[i].tracer = bdArgs[i]

\* Witness of C23: bind was called with a value, a tracer of level 1 and a
\* tracer of level MaxLevel, and processPrimitive received the value wrapped
\* by pure, the first tracer lifted and the second unchanged.
C23_Witness ==
  /\ Len(bdArgs) = 3
  /\ bdArgs[1].kind = "value"
  /\ bdArgs[2] = TracerOf([level |-> 1, serial |-> 0])
  /\ bdArgs[3] = TracerOf([level |-> MaxLevel, serial |-> 0])
  /\ bdErr = "none"
  /\ bdTop.level = MaxLevel
  /\ Len(bdTracers) = 3
  /\ bdTracers[1].how = "pure"
  /\ bdTracers[2].how = "lift"
  /\ bdTracers[3].how = "same"

(***************************************************************************)
(* PendingExecute with submit and submitSync.  submit() starts an inner    *)
(* async function that awaits backend.prepare and stores its promise in    *)
(* #promise; the backend settles prepare at any later time.  Calls on the  *)
(* one object interleave at the awaits.                                    *)
(***************************************************************************)
NotSubmit ==
  <<aluVars, divVars, bkVars, trVars, arVars, viewVars, jvpVars, vmVars,
    spVars, rcVars, bdVars,
    tcVars,
    wmVars,
    odVars>>

\* A submit / submitSync call: for submit, pc is "awaiting" (at `await
\* this.#promise`), "resolved" or "rejected" (the state of the promise it
\* returned); for submitSync, "returned" or "thrown".  `did` tells whether
\* the call itself invoked backend.dispatch.
PeCall(fn, pc, did) == [fn |-> fn, pc |-> pc, did |-> did]

\* The inner function after `await backend.prepare(...)`, without the
\* second test of `submitted`.
submitInner_NoRecheck(submitted, dispatched) ==
  [submitted |-> TRUE, dispatched |-> dispatched + 1]

\* The inner function after `await backend.prepare(...)`:
\* if (!this.submitted) { backend.dispatch(...); this.submitted = true; }
submitInner(submitted, dispatched) ==
  IF ~submitted
    THEN [submitted |-> TRUE, dispatched |-> dispatched + 1]
    ELSE [submitted |-> submitted, dispatched |-> dispatched]

\* submit(backend), up to its first await or its return.
PeSubmit ==
  /\ Len(peCalls) < MaxSubmits
  /\ IF peSubmitted
       THEN /\ peCalls' = Append(peCalls, PeCall("submit", "resolved", FALSE))
            /\ UNCHANGED <<pePromise, pePrepared>>
     ELSE IF pePromise # "null"
       THEN /\ peCalls' = Append(peCalls, PeCall("submit", "awaiting", FALSE))
            /\ UNCHANGED <<pePromise, pePrepared>>
     ELSE /\ pePromise' = "pending"
          /\ pePrepared' = pePrepared + 1
          /\ peCalls' = Append(peCalls, PeCall("submit", "resolved", FALSE))
  /\ UNCHANGED <<peSubmitted, peDispatched>>
  /\ UNCHANGED NotSubmit

\* submitSync(backend); prepareSync returns or throws.
PeSubmitSync ==
  /\ Len(peCalls) < MaxSubmits
  /\ IF peSubmitted
       THEN /\ peCalls' = Append(peCalls,
                                 PeCall("submitSync", "returned", FALSE))
            /\ UNCHANGED <<peSubmitted, peDispatched>>
     ELSE \E ok \in BOOLEAN :
            IF ok
              THEN /\ peDispatched' = peDispatched + 1
                   /\ peSubmitted' = TRUE
                   /\ peCalls' = Append(peCalls,
                                   PeCall("submitSync", "returned", TRUE))
              ELSE /\ peCalls' = Append(peCalls,
                                   PeCall("submitSync", "thrown", FALSE))
                   /\ UNCHANGED <<peSubmitted, peDispatched>>
  /\ UNCHANGED <<pePromise, pePrepared>>
  /\ UNCHANGED NotSubmit

\* backend.prepare resolves and the inner function runs to its end.
PePrepareResolve ==
  /\ pePromise = "pending"
  /\ LET after == submitInner(peSubmitted, peDispatched)
     IN /\ peSubmitted' = after.submitted
        /\ peDispatched' = after.dispatched
  /\ pePromise' = "fulfilled"
  /\ UNCHANGED <<peCalls, pePrepared>>
  /\ UNCHANGED NotSubmit

\* backend.prepare rejects: the inner function throws at its await.
PePrepareReject ==
  /\ pePromise = "pending"
  /\ pePromise' = "rejected"
  /\ UNCHANGED <<peSubmitted, peCalls, peDispatched, pePrepared>>
  /\ UNCHANGED NotSubmit

\* A submit call resumes after `await this.#promise`.
PeResume ==
  /\ pePromise \in {"fulfilled", "rejected"}
  /\ \E i \in DOMAIN peCalls :
       /\ peCalls[i].pc = "awaiting"
       /\ peCalls' = [peCalls EXCEPT ![i].pc =
                        IF pePromise = "fulfilled" THEN "resolved"
                                                   ELSE "rejected"]
  /\ UNCHANGED <<peSubmitted, pePromise, peDispatched, pePrepared>>
  /\ UNCHANGED NotSubmit

NextSubmit ==
  PeSubmit \/ PeSubmitSync \/ PePrepareResolve \/ PePrepareReject
    \/ PeResume

InitSpecSubmit ==
  InitSubmitIdle /\ InitAluIdle /\ InitDivIdle /\ InitBackendIdle
    /\ InitTraceIdle /\ InitArrayIdle /\ InitViewIdle /\ InitJvpIdle
    /\ InitVmapIdle /\ InitShaderIdle /\ InitRefcountIdle /\ InitBindIdle
    /\ InitTypecheckIdle
    /\ InitWasmIdle
    /\ InitOptaxIdle

SpecSubmit == InitSpecSubmit /\ [][NextSubmit]_vars

C26_ResolvedAfterDispatch ==
  \A i \in DOMAIN peCalls :
    (peCalls[i].fn = "submit" /\ peCalls[i].pc = "resolved")
      => peDispatched >= 1

\* The backend.dispatch calls made for kernel k by the data() and
\* dataSync() calls so far.
Dispatches(k) ==
  {ci \in (DOMAIN calls) \X (1..Len(kernels)) :
     /\ ci[2] \in DOMAIN calls[ci[1]].dispatched
     /\ calls[ci[1]].dispatched[ci[2]] = k}

\* C25: backend.dispatch is invoked at most once for every pending kernel,
\* however many data() and dataSync() calls are made on the arrays whose
\* pending sets contain it.
C25_DispatchOncePerKernel ==
  \A k \in DOMAIN kernels : Cardinality(Dispatches(k)) <= 1

(***************************************************************************)
(* typecheckJaxpr.  A Var is an object with a fixed aval: the variables of *)
(* a jaxpr are 1 .. MaxVar and jaxpr.avals gives the aval of each.         *)
(***************************************************************************)
NotTypecheck ==
  <<aluVars, divVars, bkVars, trVars, arVars, viewVars, jvpVars, vmVars,
    spVars, rcVars, bdVars, peVars,
    wmVars,
    odVars>>

\* new ShapedArray(shape, dtype)
ShapedArray(shape, dtype) == [shape |-> shape, dtype |-> dtype]

\* The avals of the variables.
TcAvals ==
  {ShapedArray(s, d) :
     s \in UNION {[1..n -> {TcDim}] : n \in 0..MaxTcRank},
     d \in {"float32", "bool"}}

\* JaxprEqn: a binary primitive, its input atoms and its out binder.
JaxprEqns ==
  [primitive : {"add", "greater"}, inputs : [1..2 -> 1..MaxVar],
   outBinder : 1..MaxVar]

\* The jaxprs that are checked.
Jaxprs ==
  [avals : [1..MaxVar -> TcAvals],
   inBinders : UNION {[1..n -> 1..MaxVar] : n \in 1..MaxInBinders},
   eqns : UNION {[1..n -> JaxprEqns] : n \in 1..MaxEqns},
   outs : [1..1 -> 1..MaxVar]]

\* ShapedArray.equals(other): the constructor, ndim and every dimension.
equals(this, other) ==
  /\ ndim(this.shape) = ndim(other.shape)
  /\ \A i \in DOMAIN this.shape : this.shape[i] = other.shape[i]

\* abstractEvalRules[primitive]([x, y]): the error, or the type of the
\* output.
abstractEvalRules(primitive, x, y) ==
  LET r == IF primitive = "add" THEN binopAbstractEval(x, y)
                                ELSE compareAbstractEval(x, y)
  IN [err |-> r.err,
      aval |-> ShapedArray(r.shape,
                           IF primitive = "add" THEN x.dtype ELSE "bool")]

\* typecheckAtom(env, x) throws for a Var that is not in env.
typecheckAtom(env, x) == IF x \in env THEN "none" ELSE "Unknown variable"

\* The loop over jaxpr.inBinders: the error and the environment.
RECURSIVE checkInBinders(_, _)
checkInBinders(binders, env) ==
  IF binders = <<>> THEN [err |-> "none", env |-> env]
  ELSE IF Head(binders) \in env
    THEN [err |-> "Duplicate variable binding", env |-> env]
  ELSE checkInBinders(Tail(binders), env \cup {Head(binders)})

\* The loop over jaxpr.eqns.
RECURSIVE checkEqns(_, _, _)
checkEqns(avals, eqns, env) ==
  IF eqns = <<>> THEN [err |-> "none", env |-> env]
  ELSE LET eqn == Head(eqns)
           unknown == {i \in 1..2 :
                         typecheckAtom(env, eqn.inputs[i]) # "none"}
           out == abstractEvalRules(eqn.primitive, avals[eqn.inputs[1]],
                                    avals[eqn.inputs[2]])
       IN IF unknown # {} THEN [err |-> "Unknown variable", env |-> env]
          ELSE IF out.err # "none" THEN [err |-> out.err, env |-> env]
          ELSE IF ~equals(out.aval, avals[eqn.outBinder])
            THEN [err |-> "Output binder type mismatch", env |-> env]
          ELSE IF eqn.outBinder \in env
            THEN [err |-> "Duplicate variable binding", env |-> env]
          ELSE checkEqns(avals, Tail(eqns), env \cup {eqn.outBinder})

\* typecheckJaxpr(jaxpr): "ok" when it returns a JaxprType, otherwise the
\* error it throws.
typecheckJaxpr(jaxpr) ==
  LET ins == checkInBinders(jaxpr.inBinders, {})
      eqs == checkEqns(jaxpr.avals, jaxpr.eqns, ins.env)
  IN IF ins.err # "none" THEN ins.err
     ELSE IF eqs.err # "none" THEN eqs.err
     ELSE IF \E i \in DOMAIN jaxpr.outs :
               typecheckAtom(eqs.env, jaxpr.outs[i]) # "none"
       THEN "Unknown variable"
     ELSE "ok"

\* A jaxpr is handed to typecheckJaxpr.
InitTypecheck ==
  /\ tcJaxpr \in Jaxprs
  /\ tcResult = "none"

\* typecheckJaxpr(jaxpr)
Typecheck ==
  /\ tcResult = "none"
  /\ tcResult' = typecheckJaxpr(tcJaxpr)
  /\ UNCHANGED tcJaxpr
  /\ UNCHANGED NotTypecheck

NextTypecheck == Typecheck

InitSpecTypecheck ==
  InitTypecheck /\ InitAluIdle /\ InitDivIdle /\ InitBackendIdle
    /\ InitTraceIdle /\ InitArrayIdle /\ InitViewIdle /\ InitJvpIdle
    /\ InitVmapIdle /\ InitShaderIdle /\ InitRefcountIdle /\ InitBindIdle
    /\ InitSubmitIdle
    /\ InitWasmIdle
    /\ InitOptaxIdle

SpecTypecheck == InitSpecTypecheck /\ [][NextTypecheck]_vars

\* The variables bound before equation i: the input binders and the out
\* binders of the equations before it.
BoundBefore(jaxpr, i) ==
  {jaxpr.inBinders[k] : k \in DOMAIN jaxpr.inBinders}
    \cup {jaxpr.eqns[k].outBinder : k \in 1..(i - 1)}

\* Equation i declares an out binder whose type differs, in shape or in
\* dtype, from what abstract evaluation gives for its inputs.
BinderMismatch(jaxpr, i) ==
  LET eqn == jaxpr.eqns[i]
      out == abstractEvalRules(eqn.primitive, jaxpr.avals[eqn.inputs[1]],
                               jaxpr.avals[eqn.inputs[2]])
  IN /\ out.err = "none"
     /\ out.aval # jaxpr.avals[eqn.outBinder]

\* The jaxpr binds a variable twice.
BindsTwice(jaxpr) ==
  \/ \E j, k \in DOMAIN jaxpr.inBinders :
       j # k /\ jaxpr.inBinders[j] = jaxpr.inBinders[k]
  \/ \E i \in DOMAIN jaxpr.eqns :
       jaxpr.eqns[i].outBinder \in BoundBefore(jaxpr, i)

\* The jaxpr reads a variable before it is bound.
ReadsUnbound(jaxpr) ==
  \/ \E i \in DOMAIN jaxpr.eqns : \E k \in 1..2 :
       jaxpr.eqns[i].inputs[k] \notin BoundBefore(jaxpr, i)
  \/ \E k \in DOMAIN jaxpr.outs :
       jaxpr.outs[k] \notin BoundBefore(jaxpr, Len(jaxpr.eqns) + 1)

\* C27: typecheckJaxpr rejects every jaxpr with an equation whose declared
\* out binder type differs in shape or dtype from the result of abstract
\* evaluation, and every jaxpr that binds a variable twice or reads a
\* variable before it is bound.
C27_TypecheckRejects ==
  tcResult # "none" =>
    ((\/ \E i \in DOMAIN tcJaxpr.eqns : BinderMismatch(tcJaxpr, i)
      \/ BindsTwice(tcJaxpr)
      \/ ReadsUnbound(tcJaxpr))
       => tcResult # "ok")

(***************************************************************************)
(* The memory of the WasmBackend.  Byte counts go up to the 4 GiB of the   *)
(* memory, so a count n is kept as [blocks, rest] with n = 64 * blocks +   *)
(* rest and rest < 64; #headPtr and every ptr are multiples of 64 and are  *)
(* kept as a number of 64-byte blocks.                                     *)
(***************************************************************************)
NotWasm ==
  <<aluVars, divVars, bkVars, trVars, arVars, viewVars, jvpVars, vmVars,
    spVars, rcVars, bdVars, peVars, tcVars,
    odVars>>

\* new WebAssembly.Memory({ initial: 65536 }): the number of 64 KiB pages.
WasmPages == 65536

\* The 64-byte blocks of a page.
PageBlocks == 1024

\* The 64-byte blocks of memory.buffer.
MemoryBlocks == WasmPages * PageBlocks

\* The byte count 64 * blocks + rest.
Bytes(blocks, rest) == [blocks |-> blocks, rest |-> rest]

\* Math.ceil(size / 64), i.e. the blocks #headPtr advances by.
CeilBlocks(nbytes) == nbytes.blocks + (IF nbytes.rest > 0 THEN 1 ELSE 0)

\* The bytes [ptr, ptr + size) lie inside the memory.
InMemory(ptr, nbytes) == ptr + CeilBlocks(nbytes) <= MemoryBlocks

\* new Uint8Array(memory.buffer, ptr, size): a RangeError when the view
\* does not lie inside the buffer.
Uint8ArrayOver(ptr, nbytes) ==
  IF InMemory(ptr, nbytes) THEN "none" ELSE "RangeError"

\* The sizes malloc is called with: 4 bytes, 65 bytes, 2 GiB, 4 GiB and
\* 4 GiB + 1.
WasmSizes ==
  {Bytes(0, 4), Bytes(1, 1), Bytes(MemoryBlocks \div 2, 0),
   Bytes(MemoryBlocks, 0), Bytes(MemoryBlocks, 1)}

\* malloc(size, initialData): initialData is {} when absent, otherwise
\* {its byteLength}.
WasmMalloc ==
  /\ Len(wmBuffers) < MaxWasmSlots
  /\ \E nbytes \in WasmSizes :
     \E initialData \in {{}, {nbytes}, {Bytes(0, 0)}} :
       LET ptr == wmHead
           err == IF initialData = {} THEN "none"
                  ELSE IF initialData # {nbytes} THEN "Error"
                  ELSE Uint8ArrayOver(ptr, nbytes)
       IN /\ wmLast' = [op |-> "malloc", err |-> err,
                        fits |-> InMemory(ptr, nbytes)]
          /\ IF err = "none"
               THEN /\ wmBuffers' = Append(wmBuffers,
                                           [ptr |-> ptr, size |-> nbytes])
                    /\ wmHead' = wmHead + CeilBlocks(nbytes)
               ELSE UNCHANGED <<wmBuffers, wmHead>>
  /\ UNCHANGED NotWasm

\* #getBuffer(slot) on a live slot: the view over the slot's bytes.
WasmGetBuffer ==
  /\ \E slot \in DOMAIN wmBuffers :
       wmLast' = [op |-> "getBuffer",
                  err |-> Uint8ArrayOver(wmBuffers[slot].ptr,
                                         wmBuffers[slot].size),
                  fits |-> InMemory(wmBuffers[slot].ptr,
                                    wmBuffers[slot].size)]
  /\ UNCHANGED <<wmBuffers, wmHead>>
  /\ UNCHANGED NotWasm

NextWasm == WasmMalloc \/ WasmGetBuffer

InitSpecWasm ==
  InitWasmIdle /\ InitAluIdle /\ InitDivIdle /\ InitBackendIdle
    /\ InitTraceIdle /\ InitArrayIdle /\ InitViewIdle /\ InitJvpIdle
    /\ InitVmapIdle /\ InitShaderIdle /\ InitRefcountIdle /\ InitBindIdle
    /\ InitSubmitIdle /\ InitTypecheckIdle
    /\ InitOptaxIdle

SpecWasm == InitSpecWasm /\ [][NextWasm]_vars

\* C29: the bytes [ptr, ptr + size) of every slot malloc has created lie
\* inside the memory of the backend, and a malloc whose request does not
\* fit in the memory that is left fails.
C29_SlotsInsideMemory ==
  /\ \A slot \in DOMAIN wmBuffers :
       InMemory(wmBuffers[slot].ptr, wmBuffers[slot].size)
  /\ (wmLast.op = "malloc" /\ ~wmLast.fits) => wmLast.err # "none"

(***************************************************************************)
(* addDecayedWeights.  Arrays are reference counted with move semantics:   *)
(* an operation consumes one reference of every operand, `.ref` adds one,  *)
(* and an operand without a reference left is a ReferenceError.  The       *)
(* caller hands update() fresh updates and params trees each time; the     *)
(* arrays of a static mask tree live across the calls.                     *)
(***************************************************************************)
NotOptax ==
  <<aluVars, divVars, bkVars, trVars, arVars, viewVars, jvpVars, vmVars,
    spVars, rcVars, bdVars, peVars, tcVars, wmVars>>

\* The configurations: weightDecay is 0, a non-zero number or a schedule;
\* mask is null, a tree of arrays or a function.
OptaxConfigs ==
  [weightDecay : {"zero", "nonzero", "schedule"},
   mask : {"null", "tree", "fn"}, leaves : 1..MaxLeaves]

\* tree.map((p, m) => p.mul(m).mul(currentWeightDecay), tree.ref(params),
\* maskTree) over the static mask tree: p.mul(m) consumes one reference of
\* each mask array in turn, and throws at the first array that has none.
RECURSIVE mapMask(_)
mapMask(maskTree) ==
  IF maskTree = <<>> THEN [err |-> "none", maskTree |-> <<>>]
  ELSE IF Head(maskTree) = 0
    THEN [err |-> "ReferenceError", maskTree |-> maskTree]
  ELSE LET rest == mapMask(Tail(maskTree))
       IN [err |-> rest.err,
           maskTree |-> <<Head(maskTree) - 1>> \o rest.maskTree]

\* update(updates, state, params): the error thrown, or "none", and the
\* reference counts of the mask arrays after the call.  currentWeightDecay
\* is "zero" or "nonzero".
update(cfg, maskTree, hasParams, currentWeightDecay) ==
  IF ~hasParams THEN [err |-> "Error", maskTree |-> maskTree]
  ELSE IF currentWeightDecay = "zero"
    THEN [err |-> "none", maskTree |-> maskTree]
  ELSE IF cfg.mask = "tree" THEN mapMask(maskTree)
  ELSE [err |-> "none", maskTree |-> maskTree]

\* addDecayedWeights({weightDecay, mask}); the caller may hold further
\* references to the arrays of a mask tree.
InitOptax ==
  /\ odCfg \in OptaxConfigs
  /\ odMask \in IF odCfg.mask = "tree"
                  THEN [1..odCfg.leaves -> 1..MaxMaskRefs] ELSE {<<>>}
  /\ odBefore = odMask
  /\ odK = 0
  /\ odErr = "none"

\* One update(updates, state, params) call; a schedule gives a zero or a
\* non-zero weight decay for the step.
Update ==
  /\ odK < MaxUpdates
  /\ \E hasParams \in BOOLEAN :
     \E decay \in IF odCfg.weightDecay = "schedule"
                    THEN {"zero", "nonzero"} ELSE {odCfg.weightDecay} :
       LET r == update(odCfg, odMask, hasParams, decay)
       IN /\ odBefore' = odMask
          /\ odMask' = r.maskTree
          /\ odErr' = r.err
  /\ odK' = odK + 1
  /\ UNCHANGED odCfg
  /\ UNCHANGED NotOptax

NextOptax == Update

InitSpecOptax ==
  InitOptax /\ InitAluIdle /\ InitDivIdle /\ InitBackendIdle
    /\ InitTraceIdle /\ InitArrayIdle /\ InitViewIdle /\ InitJvpIdle
    /\ InitVmapIdle /\ InitShaderIdle /\ InitRefcountIdle /\ InitBindIdle
    /\ InitSubmitIdle /\ InitTypecheckIdle /\ InitWasmIdle

SpecOptax == InitSpecOptax /\ [][NextOptax]_vars

\* C30: with a non-zero weight decay and a static mask tree, every update
\* that is given params succeeds, and it leaves every mask array with the
\* reference count it had before the update.
C30_StaticMaskKept ==
  (odCfg.weightDecay = "nonzero" /\ odCfg.mask = "tree" /\ odK >= 1)
    => \/ odErr = "Error"
       \/ odErr = "none" /\ odMask = odBefore

====
